---------------------------- MODULE Spec2Model ----------------------------
(***************************************************************************)
(* Model of the stock-analysis batch pipeline:                             *)
(*   Ticker_CSVs/*.csv --combine_csvs_final--> master_dataset.csv          *)
(*   master_dataset.csv --preparation--> master_cleaned.csv                *)
(*   master_cleaned.csv --{market_summary, returns_analysis,               *)
(*        volatility_analysis, cumulative_return_analysis,                 *)
(*        correlation_analysis}--> derived artifacts                       *)
(*                                                                         *)
(* Numbers.  A float is modelled as an exact extended rational <<n, d>>    *)
(* in lowest terms with d >= 0: d > 0 is the finite value n/d, <<1,0>> is  *)
(* +inf, <<-1,0>> is -inf and <<0,0>> is NaN (pandas' missing value).      *)
(* Rounding is not modelled; the IEEE rules for inf and NaN are.           *)
(*                                                                         *)
(* CSV cells.  A cell of a per-ticker CSV is an integer: n >= 0 is the     *)
(* numeral n (for the date column, day number n >= 1), Missing is the      *)
(* empty cell and Junk is text that parses neither as a date nor as a      *)
(* number.  Tickers are numbered in the lexical order of their names.      *)
(***************************************************************************)
EXTENDS Integers, Sequences, FiniteSets, TLC

(***************************************************************************)
(* Bounds of the model                                                     *)
(***************************************************************************)
NumTickers == 2
MaxRows == 3
MaxClose == 2
MaxDate == 2
MaxDatedRows == 2
WideTickers == 21
MaxColumns == 3
MaxMappingRows == 3
MaxRecords == 2

(***************************************************************************)
(* Cell encodings                                                          *)
(***************************************************************************)
Missing == -1
Junk == -2
NaT == 0

(***************************************************************************)
(* Extended rational arithmetic (IEEE semantics for inf and NaN)           *)
(***************************************************************************)
Abs(x) == IF x < 0 THEN -x ELSE x
Sgn(x) == IF x > 0 THEN 1 ELSE IF x < 0 THEN -1 ELSE 0

RECURSIVE GCD(_, _)
GCD(a, b) == IF b = 0 THEN a ELSE GCD(b, a % b)

Norm(n, d) ==
    IF d = 0 THEN <<Sgn(n), 0>>
    ELSE LET s == IF d < 0 THEN -1 ELSE 1
             g == GCD(Abs(n), Abs(d))
         IN  <<(s * n) \div g, (s * d) \div g>>

NaN == <<0, 0>>
PosInf == <<1, 0>>
Zero == <<0, 1>>
One == <<1, 1>>
Num(k) == <<k, 1>>

IsNaN(x) == x = NaN
IsFinite(x) == x[2] > 0

\* the operands are reduced against each other before they are multiplied,
\* which keeps the intermediate integers small
RAdd(x, y) ==
    IF x[2] = 0 /\ y[2] = 0
    THEN (IF x = y THEN x ELSE NaN)
    ELSE IF x[2] = 0 THEN x
    ELSE IF y[2] = 0 THEN y
    ELSE LET g == GCD(x[2], y[2])
         IN  Norm(x[1] * (y[2] \div g) + y[1] * (x[2] \div g), (x[2] \div g) * y[2])
RNeg(x) == <<-x[1], x[2]>>
RSub(x, y) == RAdd(x, RNeg(y))
RMul(x, y) ==
    LET g1 == GCD(Abs(x[1]), y[2])
        g2 == GCD(Abs(y[1]), x[2])
    IN  IF g1 = 0 \/ g2 = 0 THEN Norm(x[1] * y[1], x[2] * y[2])
        ELSE Norm((x[1] \div g1) * (y[1] \div g2), (x[2] \div g2) * (y[2] \div g1))
RDiv(x, y) ==
    IF x[2] = 0 /\ y[2] = 0 THEN NaN
    ELSE RMul(x, Norm(y[2], y[1]))
\* x > 0 and x < 0 as pandas evaluates them (False on NaN)
RPos(x) == x[1] > 0
RNegative(x) == x[1] < 0
\* x < y on non-NaN values
RLess(x, y) ==
    IF x[2] = 0 \/ y[2] = 0
    THEN (IF x[2] = 0 /\ y[2] = 0 THEN x[1] < y[1]
          ELSE IF x[2] = 0 THEN x[1] < 0 ELSE y[1] > 0)
    ELSE x[1] * y[2] < y[1] * x[2]

(***************************************************************************)
(* Table helpers                                                           *)
(***************************************************************************)
\* the rows of the table whose index is in keep, in table order
SelectRows(rows, keep) ==
    LET idx == keep \cap (1..Len(rows))
        rank == [i \in idx |-> Cardinality({j \in idx : j <= i})]
    IN  [k \in 1..Cardinality(idx) |-> rows[CHOOSE i \in idx : rank[i] = k]]

\* pandas orders a sort key with the missing value last
KeyLess(a, b, na) == a # na /\ (b = na \/ a < b)

\* row a sorts strictly before row b under sort_values(["Ticker", "date"])
RowLess(a, b, naTicker, naDate) ==
    \/ KeyLess(a.Ticker, b.Ticker, naTicker)
    \/ a.Ticker = b.Ticker /\ KeyLess(a.date, b.date, naDate)

\* sort_values(["Ticker", "date"], kind="stable"): a row comes after the
\* rows that sort strictly before it and after the earlier rows of equal key
SortStable(rows, naTicker, naDate) ==
    LET n == Len(rows)
        pos == [i \in 1..n |->
                  1 + Cardinality({j \in 1..n :
                        \/ RowLess(rows[j], rows[i], naTicker, naDate)
                        \/ j < i /\ ~RowLess(rows[i], rows[j], naTicker, naDate)})]
    IN  [k \in 1..n |-> rows[CHOOSE i \in 1..n : pos[i] = k]]

\* DataFrame.drop_duplicates(): the first of every set of identical rows
DropDuplicates(rows) ==
    SelectRows(rows, {i \in 1..Len(rows) : \A j \in 1..(i - 1) : rows[j] # rows[i]})

RECURSIVE ConcatFiles(_, _)
\* pd.concat over the files of the folder in sorted file-name order
ConcatFiles(folder, names) ==
    IF names = {} THEN <<>>
    ELSE LET m == CHOOSE x \in names : \A y \in names : y <= x
         IN  ConcatFiles(folder, names \ {m}) \o folder[m]

(***************************************************************************)
(* Type coercion                                                           *)
(***************************************************************************)
\* pd.to_datetime(errors="coerce") on a CSV cell
ToDatetime(c) == IF c >= 1 THEN c ELSE NaT
\* to_csv of a timestamp: NaT is written as the empty cell
WriteDate(d) == IF d = NaT THEN Missing ELSE d
\* pd.to_numeric(errors="coerce") on a CSV cell
ToNumeric(c) == IF c >= 0 THEN Num(c) ELSE NaN

(***************************************************************************)
(* Consolidator: combine_csvs_final.py                                     *)
(***************************************************************************)
ParseDateCol(rows) == [i \in 1..Len(rows) |-> [rows[i] EXCEPT !.date = ToDatetime(@)]]
WriteDateCol(rows) == [i \in 1..Len(rows) |-> [rows[i] EXCEPT !.date = WriteDate(@)]]

\* the rows written to master_dataset.csv
Combine(folder) ==
    LET frames == [f \in DOMAIN folder |-> ParseDateCol(folder[f])]
        master == DropDuplicates(ConcatFiles(frames, DOMAIN folder))
    IN  WriteDateCol(SortStable(master, Missing, NaT))

(***************************************************************************)
(* Cleaner: preparation.py                                                 *)
(***************************************************************************)
FillCols == {"open", "high", "low", "close", "volume"}

\* the columns the Cleaner requires of master_dataset.csv
required_cols == <<"date", "open", "high", "low", "close", "volume", "Ticker">>

\* the typed frame after to_datetime / to_numeric
Coerce(rows) ==
    [i \in 1..Len(rows) |->
        [Ticker |-> rows[i].Ticker,
         date   |-> ToDatetime(rows[i].date),
         open   |-> ToNumeric(rows[i].open),
         high   |-> ToNumeric(rows[i].high),
         low    |-> ToNumeric(rows[i].low),
         close  |-> ToNumeric(rows[i].close),
         volume |-> ToNumeric(rows[i].volume)]]

\* dropna(subset=["Ticker", "close"])
DropNoTickerOrClose(rows) ==
    SelectRows(rows, {i \in 1..Len(rows) :
                        rows[i].Ticker # Missing /\ ~IsNaN(rows[i].close)})

\* a fill or a change computed over the whole table instead of per ticker
PrevInTable(rows, i) == i - 1

\* the previous row of row i in its groupby(Ticker) group, 0 when i is the
\* first row of its group
PrevInGroup(rows, i) ==
    LET same == {j \in 1..(i - 1) : rows[j].Ticker = rows[i].Ticker}
    IN  IF same = {} THEN 0 ELSE CHOOSE j \in same : \A k \in same : k <= j

RECURSIVE FilledCell(_, _, _)
\* groupby(level=0).ffill(): the last non-missing value of the column at or
\* before row i within the row's own group
FilledCell(rows, i, col) ==
    IF ~IsNaN(rows[i][col]) THEN rows[i][col]
    ELSE LET p == PrevInGroup(rows, i)
         IN  IF p = 0 THEN NaN ELSE FilledCell(rows, p, col)

GroupFFill(rows) ==
    [i \in 1..Len(rows) |->
        [c \in DOMAIN rows[i] |->
            IF c \in FillCols THEN FilledCell(rows, i, c) ELSE rows[i][c]]]

\* the change taken relative to the row's own close
PctChangeOfCurrent(rows, i) ==
    LET p == PrevInGroup(rows, i)
    IN  IF p = 0 THEN NaN
        ELSE RSub(One, RDiv(rows[p].close, rows[i].close))

\* groupby(level=0)["close"].pct_change(): close / previous close - 1
PctChange(rows, i) ==
    LET p == PrevInGroup(rows, i)
    IN  IF p = 0 THEN NaN
        ELSE RSub(RDiv(rows[i].close, rows[p].close), One)

AddDailyReturn(rows) ==
    [i \in 1..Len(rows) |->
        [Ticker |-> rows[i].Ticker, date |-> rows[i].date,
         open |-> rows[i].open, high |-> rows[i].high, low |-> rows[i].low,
         close |-> rows[i].close, volume |-> rows[i].volume,
         daily_return |-> PctChange(rows, i)]]

\* the rows written to master_cleaned.csv
Prepare(master) ==
    AddDailyReturn(GroupFFill(
        SortStable(DropNoTickerOrClose(Coerce(master)), Missing, NaT)))

(***************************************************************************)
(* Derivation Engine: helpers shared by the analysis scripts               *)
(***************************************************************************)
\* head(n) of a table
Head_n(rows, n) == SubSeq(rows, 1, IF Len(rows) < n THEN Len(rows) ELSE n)

\* the group keys of groupby("Ticker")
TickersOf(rows) == {rows[i].Ticker : i \in 1..Len(rows)}

\* the rows of one groupby("Ticker") group, in table order
Group(rows, t) == SelectRows(rows, {i \in 1..Len(rows) : rows[i].Ticker = t})

\* the non-missing values of a column, in table order
Valid(rows, col) ==
    LET v == SelectRows(rows, {i \in 1..Len(rows) : ~IsNaN(rows[i][col])})
    IN  [k \in 1..Len(v) |-> v[k][col]]

\* GroupBy.first() / GroupBy.last(): first / last non-missing value
First(rows, col) ==
    LET v == Valid(rows, col) IN IF v = <<>> THEN NaN ELSE v[1]
Last(rows, col) ==
    LET v == Valid(rows, col) IN IF v = <<>> THEN NaN ELSE v[Len(v)]

RECURSIVE Sum(_)
Sum(vals) ==
    IF vals = <<>> THEN Zero
    ELSE RAdd(Sum(SubSeq(vals, 1, Len(vals) - 1)), vals[Len(vals)])

\* Series.mean(): mean of the non-missing values, NaN when there is none
Mean(vals) ==
    IF vals = <<>> THEN NaN ELSE RDiv(Sum(vals), Num(Len(vals)))

\* dropna(subset=["daily_return"])
DropNoReturn(rows) ==
    SelectRows(rows, {i \in 1..Len(rows) : ~IsNaN(rows[i].daily_return)})

\* a sorts strictly before b under sort_values(ascending=asc), NaN last
ValBefore(a, b, asc) ==
    /\ ~IsNaN(a)
    /\ \/ IsNaN(b)
       \/ IF asc THEN RLess(a, b) ELSE RLess(b, a)

RECURSIVE SortOrders(_, _, _, _)
\* sort_values(col) with the default (unstable) sort kind: every order of
\* the rows idx in which no row comes after a row it sorts strictly before;
\* rows with equal keys may come out in any order
SortOrders(rows, idx, col, asc) ==
    IF idx = {} THEN {<<>>}
    ELSE UNION {
           {<<rows[m]>> \o o : o \in SortOrders(rows, idx \ {m}, col, asc)} :
           m \in {m \in idx :
                    \A k \in idx : ~ValBefore(rows[k][col], rows[m][col], asc)}}

RECURSIVE TableOf(_, _)
\* one row f[k] per key k of keys, in ascending key order
TableOf(f, keys) ==
    IF keys = {} THEN <<>>
    ELSE LET m == CHOOSE x \in keys : \A y \in keys : y <= x
         IN  TableOf(f, keys \ {m}) \o <<f[m]>>

(***************************************************************************)
(* Schema Normalizer: yaml_to_csv.py                                       *)
(*                                                                         *)
(* A YAML file is Parsed(records), records being the sequence of records   *)
(* that iter_records yields from it, or Unparseable when load_yaml returns *)
(* None.  A record has the keys Ticker and ticker, date and the five       *)
(* values; Missing stands for an absent key, None or an empty ticker.      *)
(***************************************************************************)
Unparseable == [parsed |-> FALSE, records |-> <<>>]
Parsed(records) == [parsed |-> TRUE, records |-> records]

\* raw.get("Ticker") or raw.get("ticker")
TickerOf(raw) == IF raw.Ticker # Missing THEN raw.Ticker ELSE raw.ticker

\* ensure_row: the record under the fixed keys
ensure_row(record) ==
    [date |-> record.date, open |-> record.open, high |-> record.high,
     low |-> record.low, close |-> record.close, volume |-> record.volume,
     Ticker |-> TickerOf(record)]

\* a record is kept only when it has a close
AcceptedWithClose(raw) ==
    TickerOf(raw) # Missing /\ ensure_row(raw).close # Missing

\* the record is appended to stocks_data: it has a ticker, and open, high,
\* low and close are not all None
Accepted(raw) ==
    /\ TickerOf(raw) # Missing
    /\ ~(/\ ensure_row(raw).open = Missing
         /\ ensure_row(raw).high = Missing
         /\ ensure_row(raw).low = Missing
         /\ ensure_row(raw).close = Missing)

RECURSIVE YieldedUntilFailure(_)
\* the records of the files that precede the first unparseable file
YieldedUntilFailure(files) ==
    IF files = <<>> THEN <<>>
    ELSE IF \E k \in 1..Len(files) : ~files[k].parsed
    THEN YieldedUntilFailure(
            SubSeq(files, 1, (CHOOSE k \in 1..Len(files) :
                                /\ ~files[k].parsed
                                /\ \A j \in 1..(k - 1) : files[j].parsed) - 1))
    ELSE YieldedUntilFailure(SubSeq(files, 1, Len(files) - 1))
            \o files[Len(files)].records

RECURSIVE Yielded(_)
\* the records yielded over the walk of the tree, the files that load_yaml
\* could not parse skipped
Yielded(files) ==
    IF files = <<>> THEN <<>>
    ELSE Yielded(SubSeq(files, 1, Len(files) - 1))
            \o (IF files[Len(files)].parsed THEN files[Len(files)].records ELSE <<>>)

\* stocks_data: ticker -> the rows of its accepted records, in walk order
stocks_data(files) ==
    LET raws == Yielded(files)
        kept == SelectRows(raws, {i \in 1..Len(raws) : Accepted(raws[i])})
        rows == [i \in 1..Len(kept) |-> ensure_row(kept[i])]
    IN  [t \in TickersOf(rows) |-> Group(rows, t)]

\* df.sort_values("date", kind="stable"): rows without a date last
SortByDate(rows) ==
    LET n == Len(rows)
        pos == [i \in 1..n |->
                  1 + Cardinality({j \in 1..n :
                        \/ KeyLess(rows[j].date, rows[i].date, NaT)
                        \/ j < i /\ ~KeyLess(rows[i].date, rows[j].date, NaT)})]
    IN  [k \in 1..n |-> rows[CHOOSE i \in 1..n : pos[i] = k]]

\* the per-ticker CSV files written by one run
TickerSeries(files) ==
    LET stocks == stocks_data(files)
    IN  [t \in DOMAIN stocks |->
            WriteDateCol(SortByDate(ParseDateCol(stocks[t])))]

\* the files of the output folder after the files of a run are written
Overwritten(folder, series) ==
    [t \in DOMAIN folder \cup DOMAIN series |->
        IF t \in DOMAIN series THEN series[t] ELSE folder[t]]

(***************************************************************************)
(* Yearly return: returns_analysis.py, market_summary.py                   *)
(***************************************************************************)
TopN == 10

\* the change taken relative to the last close
YearlyReturnOfLast(rows, t) ==
    LET g == Group(rows, t)
        first_close == First(g, "close")
        last_close == Last(g, "close")
    IN  RDiv(RSub(last_close, first_close), last_close)

\* (last_close - first_close) / first_close of one ticker
YearlyReturn(rows, t) ==
    LET g == Group(rows, t)
        first_close == First(g, "close")
        last_close == Last(g, "close")
    IN  RDiv(RSub(last_close, first_close), first_close)

\* yearly_return.reset_index(): one row per ticker, in ticker order
YearlyReturns(cleaned) ==
    LET df == SortStable(cleaned, Missing, NaT)
    IN  TableOf([t \in TickersOf(df) |->
                    [Ticker |-> t, yearly_return |-> YearlyReturn(df, t)]],
                TickersOf(df))

\* the possible contents of top_10_green.csv and top_10_loss.csv
TopGreen(cleaned) ==
    LET result == YearlyReturns(cleaned)
    IN  {Head_n(o, TopN) :
            o \in SortOrders(result, DOMAIN result, "yearly_return", FALSE)}
TopLoss(cleaned) ==
    LET result == YearlyReturns(cleaned)
    IN  {Head_n(o, TopN) :
            o \in SortOrders(result, DOMAIN result, "yearly_return", TRUE)}

\* (result["yearly_return"] > 0).sum() and (result["yearly_return"] < 0).sum()
GreenCount(result) ==
    Cardinality({i \in DOMAIN result : RPos(result[i].yearly_return)})
RedCount(result) ==
    Cardinality({i \in DOMAIN result : RNegative(result[i].yearly_return)})

\* the content of market_summary.csv
MarketSummary(cleaned) ==
    LET result == YearlyReturns(cleaned)
    IN  [green_stocks   |-> GreenCount(result),
         red_stocks     |-> RedCount(result),
         average_price  |-> Mean(Valid(cleaned, "close")),
         average_volume |-> Mean(Valid(cleaned, "volume"))]

(***************************************************************************)
(* Volatility: volatility_analysis.py                                      *)
(***************************************************************************)
RECURSIVE SumSqDev(_, _)
\* sum of (v - m)^2 over the values
SumSqDev(vals, m) ==
    IF vals = <<>> THEN Zero
    ELSE LET n == Len(vals)
             d == RSub(vals[n], m)
         IN  RAdd(SumSqDev(SubSeq(vals, 1, n - 1), m), RMul(d, d))

\* GroupBy.std() (ddof = 1), given as its square: the sample variance of the
\* values, NaN for fewer than 2 values.  std is the square root of this
\* value; the square root keeps 0, NaN and the order of the values.
StdSquared(vals) ==
    IF Len(vals) < 2 THEN NaN
    ELSE RDiv(SumSqDev(vals, Mean(vals)), Num(Len(vals) - 1))

\* df.groupby("Ticker")["daily_return"].std(), one row per group
Volatility(cleaned) ==
    LET df == DropNoReturn(cleaned)
    IN  TableOf([t \in TickersOf(df) |->
                    [Ticker |-> t,
                     volatility_sq |-> StdSquared(Valid(Group(df, t), "daily_return"))]],
                TickersOf(df))

\* the possible contents of top_10_volatile.csv
TopVolatile(cleaned) ==
    LET volatility == Volatility(cleaned)
    IN  {Head_n(o, TopN) :
            o \in SortOrders(volatility, DOMAIN volatility, "volatility_sq", FALSE)}

(***************************************************************************)
(* Cumulative return: cumulative_return_analysis.py                        *)
(***************************************************************************)
Top5 == 5

RECURSIVE CumProdOverTable(_, _)
\* a running product that is not restarted at a ticker boundary
CumProdOverTable(rows, i) ==
    LET f == RAdd(One, rows[i].daily_return)
    IN  IF i = 1 THEN f ELSE RMul(CumProdOverTable(rows, i - 1), f)

RECURSIVE CumProd(_, _)
\* (1 + daily_return).groupby(Ticker).cumprod() at row i
CumProd(rows, i) ==
    LET p == PrevInGroup(rows, i)
        f == RAdd(One, rows[i].daily_return)
    IN  IF p = 0 THEN f ELSE RMul(CumProd(rows, p), f)

\* the rows written to cumulative_full.csv
CumulativeFull(cleaned) ==
    LET df == SortStable(DropNoReturn(cleaned), Missing, NaT)
    IN  [i \in 1..Len(df) |->
            [Ticker |-> df[i].Ticker, date |-> df[i].date,
             open |-> df[i].open, high |-> df[i].high, low |-> df[i].low,
             close |-> df[i].close, volume |-> df[i].volume,
             daily_return |-> df[i].daily_return,
             cumulative_return |-> RSub(CumProd(df, i), One)]]

\* the possible contents of top_5_cumulative.csv
TopCumulative(cleaned) ==
    LET df == CumulativeFull(cleaned)
        last_values ==
            TableOf([t \in TickersOf(df) |->
                        [Ticker |-> t,
                         final_cumulative_return |->
                            Last(Group(df, t), "cumulative_return")]],
                    TickersOf(df))
    IN  {Head_n(o, Top5) :
            o \in SortOrders(last_values, DOMAIN last_values,
                             "final_cumulative_return", FALSE)}

\* the fallback with the first value of every ticker taken
get_yearly_returns_first(cum) ==
    IF ~cum.exists \/ cum.data = <<>> THEN <<>>
    ELSE LET cum_sorted == SortStable(cum.data, Missing, NaT)
         IN  TableOf([t \in TickersOf(cum_sorted) |->
                         [Ticker |-> t,
                          yearly_return |->
                             First(Group(cum_sorted, t), "cumulative_return")]],
                     TickersOf(cum_sorted))

\* app.py, get_yearly_returns: none of the preferred files is written by
\* the pipeline, so the table is derived from cumulative_full.csv, the last
\* cumulative_return of every ticker in (Ticker, date) order; there is no
\* table (<<>>) when the file is missing or has no row
get_yearly_returns(cum) ==
    IF ~cum.exists \/ cum.data = <<>> THEN <<>>
    ELSE LET cum_sorted == SortStable(cum.data, Missing, NaT)
         IN  TableOf([t \in TickersOf(cum_sorted) |->
                         [Ticker |-> t,
                          yearly_return |->
                             Last(Group(cum_sorted, t), "cumulative_return")]],
                     TickersOf(cum_sorted))

(***************************************************************************)
(* Correlation: correlation_analysis.py                                    *)
(***************************************************************************)
\* pivot_table(index="date", columns="Ticker", values="daily_return"):
\* the mean of the returns of ticker t on date d, NaN for an empty cell
PivotCell(df, d, t) ==
    Mean(Valid(SelectRows(df, {i \in 1..Len(df) :
                                 df[i].date = d /\ df[i].Ticker = t}),
               "daily_return"))

\* rows with a missing date are left out of the pivot's index
PivotDates(df) == {df[i].date : i \in 1..Len(df)} \ {NaT}

\* tickers whose column of the pivot has a value
PivotTickers(df) ==
    {t \in TickersOf(df) : \E d \in PivotDates(df) : ~IsNaN(PivotCell(df, d, t))}

RECURSIVE SumOver(_, _)
\* sum of f over its keys in dates
SumOver(f, dates) ==
    IF dates = {} THEN Zero
    ELSE LET d == CHOOSE x \in dates : TRUE
         IN  RAdd(f[d], SumOver(f, dates \ {d}))

\* the covariance of the columns x and y (DataFrame.cov()) in place of their
\* correlation
CovPair(df, x, y) ==
    LET obs == {d \in PivotDates(df) :
                   IsFinite(PivotCell(df, d, x)) /\ IsFinite(PivotCell(df, d, y))}
        nobs == Num(Cardinality(obs))
        vx == [d \in obs |-> PivotCell(df, d, x)]
        vy == [d \in obs |-> PivotCell(df, d, y)]
        meanx == RDiv(SumOver(vx, obs), nobs)
        meany == RDiv(SumOver(vy, obs), nobs)
        covxy == SumOver([d \in obs |-> RMul(RSub(vx[d], meanx), RSub(vy[d], meany))], obs)
    IN  IF Cardinality(obs) < 2 THEN NaN
        ELSE RDiv(covxy, Num(Cardinality(obs) - 1))

\* DataFrame.corr() for the columns x and y (pairwise complete finite
\* observations, min_periods = 1): covxy / sqrt(ssqdmx * ssqdmy), NaN when
\* the divisor is 0.  The value r is given as sign(r) * r^2, which keeps
\* -1, 0, 1, NaN and the order of the values.
CorrPair(df, x, y) ==
    LET obs == {d \in PivotDates(df) :
                   IsFinite(PivotCell(df, d, x)) /\ IsFinite(PivotCell(df, d, y))}
        nobs == Num(Cardinality(obs))
        vx == [d \in obs |-> PivotCell(df, d, x)]
        vy == [d \in obs |-> PivotCell(df, d, y)]
        meanx == RDiv(SumOver(vx, obs), nobs)
        meany == RDiv(SumOver(vy, obs), nobs)
        ssqdmx == SumOver([d \in obs |-> RMul(RSub(vx[d], meanx), RSub(vx[d], meanx))], obs)
        ssqdmy == SumOver([d \in obs |-> RMul(RSub(vy[d], meany), RSub(vy[d], meany))], obs)
        covxy == SumOver([d \in obs |-> RMul(RSub(vx[d], meanx), RSub(vy[d], meany))], obs)
        divisor_sq == RMul(ssqdmx, ssqdmy)
    IN  IF obs = {} \/ divisor_sq = Zero THEN NaN
        ELSE RMul(Num(Sgn(covxy[1])), RDiv(RMul(covxy, covxy), divisor_sq))

\* the content of correlation_matrix.csv: nancorr computes the entry of
\* each pair xi >= yi once and stores it at [xi, yi] and [yi, xi]
CorrMatrix(cleaned) ==
    LET df == DropNoReturn(cleaned)
        cols == PivotTickers(df)
    IN  [index   |-> cols,
         columns |-> cols,
         values  |-> [xi \in cols |-> [yi \in cols |->
                        IF yi <= xi THEN CorrPair(df, xi, yi)
                        ELSE CorrPair(df, yi, xi)]]]

(***************************************************************************)
(* Monthly leaderboards: monthly_performance.py                            *)
(***************************************************************************)
\* the number of day numbers that make up one calendar month of the model
DaysPerMonth == 2

\* df["date"].dt.to_period("M"): the calendar month of a date
Month(d) == ((d - 1) \div DaysPerMonth) + 1

\* dropna(subset=["date"])
DropNoDate(rows) == SelectRows(rows, {i \in 1..Len(rows) : rows[i].date # NaT})

\* the (Ticker, month) group keys of the table
MonthlyKeys(df) == {<<df[i].Ticker, Month(df[i].date)>> : i \in 1..Len(df)}

\* the rows of one (Ticker, month) group, in table order
MonthGroup(df, k) ==
    SelectRows(df, {i \in 1..Len(df) :
                      df[i].Ticker = k[1] /\ Month(df[i].date) = k[2]})

\* the row of one (Ticker, month) group: first and last close of the group
\* and (last - first) / first
MonthlyRow(df, k) ==
    LET first == First(MonthGroup(df, k), "close")
        last == Last(MonthGroup(df, k), "close")
    IN  [Ticker |-> k[1], month |-> k[2], first |-> first, last |-> last,
         monthly_return |-> RDiv(RSub(last, first), first)]

\* calculate_monthly_return: one row per (Ticker, month) group in key
\* order, the rows without a monthly return dropped
calculate_monthly_return(df) ==
    LET keys == MonthlyKeys(df)
        before(a, b) == a[1] < b[1] \/ (a[1] = b[1] /\ a[2] < b[2])
        pos == [k \in keys |-> 1 + Cardinality({j \in keys : before(j, k)})]
        all == [n \in 1..Cardinality(keys) |->
                   MonthlyRow(df, CHOOSE k \in keys : pos[k] = n)]
    IN  SelectRows(all, {i \in 1..Len(all) : ~IsNaN(all[i].monthly_return)})

\* the first n rows in the order of the column with the rows in table order
\* and no regard to their values
FirstRows(rows, n, col, asc) == Head_n(rows, n)

\* nlargest(n, col) (asc = FALSE) and nsmallest(n, col) (asc = TRUE) with
\* keep="first": the n rows with the extreme values in value order, rows of
\* equal value in table order
NExtreme(rows, n, col, asc) ==
    LET len == Len(rows)
        pos == [i \in 1..len |->
                  1 + Cardinality({j \in 1..len :
                        \/ ValBefore(rows[j][col], rows[i][col], asc)
                        \/ j < i /\ ~ValBefore(rows[i][col], rows[j][col], asc)})]
    IN  Head_n([k \in 1..len |-> rows[CHOOSE i \in 1..len : pos[i] = k]], n)

\* monthly["month"].unique(): the months in order of first appearance
UniqueMonths(monthly) ==
    LET firsts == {i \in 1..Len(monthly) :
                     \A j \in 1..(i - 1) : monthly[j].month # monthly[i].month}
        kept == SelectRows(monthly, firsts)
    IN  [k \in 1..Len(kept) |-> kept[k].month]

\* top5["rank"] = range(1, len(top5) + 1)
WithRank(rows) ==
    [i \in 1..Len(rows) |->
        [Ticker |-> rows[i].Ticker, month |-> rows[i].month,
         first |-> rows[i].first, last |-> rows[i].last,
         monthly_return |-> rows[i].monthly_return, rank |-> i]]

RECURSIVE Leaderboard(_, _, _)
\* pd.concat of the ranked lists of the months, in the order of the months
Leaderboard(monthly, months, asc) ==
    IF months = <<>> THEN <<>>
    ELSE LET month_data ==
                 SelectRows(monthly, {i \in 1..Len(monthly) :
                                        monthly[i].month = months[Len(months)]})
         IN  Leaderboard(monthly, SubSeq(months, 1, Len(months) - 1), asc)
                \o WithRank(NExtreme(month_data, Top5, "monthly_return", asc))

\* the monthly returns of the Cleaned Table
MonthlyReturns(cleaned) == calculate_monthly_return(DropNoDate(cleaned))

\* the rows of monthly_top_5_gainers.csv and monthly_top_5_losers.csv
MonthlyGainers(cleaned) ==
    LET monthly == MonthlyReturns(cleaned)
    IN  Leaderboard(monthly, UniqueMonths(monthly), FALSE)
MonthlyLosers(cleaned) ==
    LET monthly == MonthlyReturns(cleaned)
    IN  Leaderboard(monthly, UniqueMonths(monthly), TRUE)

\* the charts saved by plot_monthly_charts: two per month
MonthlyCharts(cleaned) ==
    LET monthly == MonthlyReturns(cleaned)
    IN  {<<kind, monthly[i].month>> :
            kind \in {"gainers", "losers"}, i \in 1..Len(monthly)}

(***************************************************************************)
(* Sector performance: sector_performance.py                               *)
(*                                                                         *)
(* A column name is a record [text, caps]: text is the lower-case name as  *)
(* a sequence of words and separators, caps tells whether the name is      *)
(* written with capitals.  "t in key" is containment of a sequence of      *)
(* words.  A cell of the mapping is a ticker number, a sector number       *)
(* (above SectorBase), a company number (above CompanyBase) or Missing.    *)
(***************************************************************************)
CompanyBase == 100
SectorBase == 200

\* c.lower()
Lower(c) == [text |-> c.text, caps |-> FALSE]

\* lower_cols = {c.lower(): c for c in df.columns}: the keys in the order
\* of their first column, each with the last column of that key
lower_cols(columns) ==
    LET firsts == {i \in 1..Len(columns) :
                     \A j \in 1..(i - 1) : Lower(columns[j]) # Lower(columns[i])}
        keys == SelectRows(columns, firsts)
    IN  [k \in 1..Len(keys) |->
            [key |-> Lower(keys[k]).text,
             orig |-> columns[CHOOSE i \in 1..Len(columns) :
                         /\ Lower(columns[i]) = Lower(keys[k])
                         /\ \A j \in 1..Len(columns) :
                              Lower(columns[j]) = Lower(keys[k]) => j <= i]]]

ticker_candidates ==
    << <<"ticker">>, <<"symbol">>, <<"stock">>, <<"stock", "_", "symbol">>,
       <<"company">>, <<"name">> >>

sector_candidates ==
    << <<"sector">>, <<"industry">>, <<"sector", "_", "name">>,
       <<"industry", "_", "name">> >>

\* t in key
Contains(key, t) ==
    \E o \in 1..(Len(key) - Len(t) + 1) : SubSeq(key, o, o + Len(t) - 1) = t

\* the entries of lower_cols whose key contains one of the candidates
Matching(lower, candidates) ==
    {k \in 1..Len(lower) :
        \E c \in 1..Len(candidates) : Contains(lower[k].key, candidates[c])}

\* detect_columns: for each field, the first column of the mapping whose
\* lower-case name contains any candidate; <<>> stands for the ValueError
\* raised when a field has no such column
detect_columns(columns) ==
    LET lower == lower_cols(columns)
        tm == Matching(lower, ticker_candidates)
        sm == Matching(lower, sector_candidates)
    IN  IF tm = {} \/ sm = {} THEN <<>>
        ELSE <<lower[CHOOSE k \in tm : \A j \in tm : k <= j].orig,
               lower[CHOOSE k \in sm : \A j \in sm : k <= j].orig>>

\* the position of a column in the header
ColumnIndex(columns, c) == CHOOSE k \in 1..Len(columns) : columns[k] = c

\* returns.merge(sectors[[ticker_col, sector_col]], how="left") followed by
\* dropna(subset=[sector_col]): one row per pair of a ticker's yearly return
\* and a mapping row of that ticker that has a sector
MergedWithSector(returns, sectors, ticker_col, sector_col) ==
    LET ti == ColumnIndex(sectors.columns, ticker_col)
        si == ColumnIndex(sectors.columns, sector_col)
        pairs == {q \in (1..Len(returns)) \X (1..Len(sectors.rows)) :
                    /\ sectors.rows[q[2]][ti] = returns[q[1]].Ticker
                    /\ sectors.rows[q[2]][si] # Missing}
        before(a, b) == a[1] < b[1] \/ (a[1] = b[1] /\ a[2] < b[2])
        pos == [q \in pairs |-> 1 + Cardinality({r \in pairs : before(r, q)})]
    IN  [n \in 1..Cardinality(pairs) |->
            LET q == CHOOSE q \in pairs : pos[q] = n
            IN  [Ticker |-> returns[q[1]].Ticker,
                 yearly_return |-> returns[q[1]].yearly_return,
                 sector |-> sectors.rows[q[2]][si]]]

\* merged.groupby(sector_col)["yearly_return"].mean().reset_index()
SectorMeans(merged) ==
    LET keys == {merged[i].sector : i \in 1..Len(merged)}
    IN  TableOf([k \in keys |->
                    [sector |-> k,
                     average_yearly_return |->
                        Mean(Valid(SelectRows(merged, {i \in 1..Len(merged) :
                                                         merged[i].sector = k}),
                                   "yearly_return"))]],
                keys)

\* the possible contents of sector_performance.csv
SectorPerformance(cleaned, sectors, ticker_col, sector_col) ==
    LET sector_perf ==
            SectorMeans(MergedWithSector(YearlyReturns(cleaned), sectors,
                                         ticker_col, sector_col))
    IN  SortOrders(sector_perf, DOMAIN sector_perf, "average_yearly_return", FALSE)

(***************************************************************************)
(* Files and folders                                                       *)
(***************************************************************************)
\* a file that does not exist, and a file with the given content
NoFile == [exists |-> FALSE, data |-> <<>>]
File(content) == [exists |-> TRUE, data |-> content]

\* a folder of YAML files that does not exist, and one whose walk finds the
\* given sequence of files
NoFolder == [exists |-> FALSE, files |-> <<>>]
Folder(files) == [exists |-> TRUE, files |-> files]

\* a folder of charts that does not exist, and one holding the given set of
\* charts
NoCharts == [exists |-> FALSE, files |-> {}]
Charts(files) == [exists |-> TRUE, files |-> files]

(***************************************************************************)
(* Input: the per-ticker CSV files of the Ticker_CSVs folder               *)
(***************************************************************************)
\* all sequences of length 0..n over the set S
RECURSIVE SeqsUpTo(_, _)
SeqsUpTo(S, n) ==
    IF n = 0 THEN {<<>>}
    ELSE LET shorter == SeqsUpTo(S, n - 1)
         IN  shorter \cup {Append(q, e) : q \in {q \in shorter : Len(q) = n - 1}, e \in S}

\* a CSV row of ticker t
Row(t, d, o, h, l, c, v) ==
    [date |-> d, open |-> o, high |-> h, low |-> l, close |-> c, volume |-> v,
     Ticker |-> t]

\* price series: one row per consecutive day, closes in 0..MaxClose
PriceSeries(t) ==
    {[i \in 1..Len(q) |-> Row(t, i, q[i], q[i], q[i], q[i], 10 * t + i)] :
        q \in SeqsUpTo(0..MaxClose, MaxRows)}

\* dated series: rows in any date order, with repeated and unparseable
\* dates, and with rows that repeat another row exactly
DatedSeries(t) ==
    LET kinds == ((1..MaxDate) \cup {Junk}) \X (1..2)
    IN  {[i \in 1..Len(q) |->
            Row(t, q[i][1], q[i][2], q[i][2], q[i][2], q[i][2], 10 * t)] :
         q \in SeqsUpTo(kinds, MaxDatedRows)}

\* raw series: as the dated series, with empty dates as well
RawSeries(t) ==
    LET kinds == ((1..MaxDate) \cup {Missing, Junk}) \X (1..2)
    IN  {[i \in 1..Len(q) |->
            Row(t, q[i][1], q[i][2], q[i][2], q[i][2], q[i][2], 10 * t)] :
         q \in SeqsUpTo(kinds, MaxDatedRows)}

\* the sets of columns left empty (open, high, low) or unparseable (volume)
\* in a row of a gappy series
GapPatterns ==
    {{}, {"open", "volume"}, {"open", "high", "low", "volume"}}

\* gappy series: one row per consecutive day, each with a gap pattern; a
\* present cell holds a value that names its ticker and row
GappySeries(t) ==
    {[i \in 1..Len(q) |->
        Row(t, i,
            IF "open" \in q[i] THEN Missing ELSE 10 * t + i,
            IF "high" \in q[i] THEN Missing ELSE 10 * t + i,
            IF "low" \in q[i] THEN Missing ELSE 10 * t + i,
            i,
            IF "volume" \in q[i] THEN Junk ELSE 10 * t + i)] :
     q \in SeqsUpTo(GapPatterns, MaxRows)}

\* the fixed series of a ticker that accompanies the series under study:
\* its first row has every fillable cell empty, a later row has gaps, one
\* row has neither a date nor a usable close and, for odd tickers, one row
\* has no ticker; the closes differ from ticker to ticker
ContextSeries(t) ==
    LET closes == IF t % 2 = 0 THEN <<1, 2, t>> ELSE <<t + 1, 1, 1>>
    IN  <<Row(t, 1, Missing, Missing, Missing, closes[1], Junk),
          Row(t, 2, 10 * t + 2, 10 * t + 2, 10 * t + 2, closes[2], 10 * t + 2),
          Row(t, Missing, 10 * t + 4, 10 * t + 4, 10 * t + 4, Junk, 10 * t + 4),
          Row(t, 3, Missing, 10 * t + 3, 10 * t + 3, closes[3], Missing)>>
        \o (IF t % 2 = 1
            THEN <<Row(Missing, 1, 10 * t + 5, 10 * t + 5, 10 * t + 5, 1, 10 * t + 5)>>
            ELSE <<>>)

\* a folder holds one file per ticker that has at least one row
FolderOf(series) ==
    [t \in {t \in DOMAIN series : series[t] # <<>>} |-> series[t]]

\* one ticker p holds a series under study, every other ticker its context
\* series
WithContext(p, s) ==
    FolderOf([t \in 1..NumTickers |-> IF t = p THEN s ELSE ContextSeries(t)])

\* series of a wide market: the yearly returns, the volatilities and the
\* final cumulative returns of different tickers all differ
WideSeries(t) ==
    LET closes == IF t % 2 = 0 THEN <<1, 1, t>> ELSE <<t, 1, 1>>
    IN  [i \in 1..3 |-> Row(t, i, closes[i], closes[i], closes[i], closes[i], 10 * t + i)]

\* the folders the pipeline is run on: the series under study belongs to
\* the first or to the last ticker
Folders ==
    UNION {{WithContext(p, s) :
               s \in PriceSeries(p) \cup DatedSeries(p) \cup GappySeries(p)} :
           p \in {1, NumTickers}}

\* the folders the Consolidator is run on by itself
RawFolders ==
    UNION {{WithContext(p, s) : s \in RawSeries(p)} : p \in {1, NumTickers}}

\* wide markets: more tickers than the top-10 lists can hold
WideFolders ==
    {[t \in 1..n |-> WideSeries(t)] : n \in {WideTickers - TopN, WideTickers}}

(***************************************************************************)
(* Input: the tree of YAML files                                           *)
(***************************************************************************)
\* the ticker keys of a record: Ticker alone, ticker alone, or neither
TickerKeys ==
    {<<t, Missing>> : t \in 1..NumTickers} \cup {<<Missing, 1>>, <<Missing, Missing>>}

\* the prices of a record: a close alone, an open alone, or none
PriceKinds == {"close", "open", "none"}

\* the record with the given ticker keys, date and prices; it has a volume
Record(keys, d, prices) ==
    [Ticker |-> keys[1], ticker |-> keys[2], date |-> d,
     open |-> IF prices = "open" THEN 1 ELSE Missing,
     high |-> Missing, low |-> Missing,
     close |-> IF prices = "close" THEN 2 ELSE Missing,
     volume |-> 5]

\* the files under study: up to MaxRecords records dated by their place in
\* the file, or a file that does not parse
ProbeFiles ==
    {Parsed([i \in 1..Len(q) |-> Record(q[i][1], i, q[i][2])]) :
        q \in SeqsUpTo(TickerKeys \X PriceKinds, MaxRecords)}
      \cup {Unparseable}

\* the file that accompanies the file under study: records of the first
\* and of the last ticker, the first without a usable date, and a record
\* without a ticker
ContextFile ==
    Parsed(<<Record(<<1, Missing>>, Junk, "close"),
             Record(<<1, Missing>>, 1, "close"),
             Record(<<NumTickers, Missing>>, 2, "open"),
             Record(<<Missing, Missing>>, 3, "close")>>)

\* the trees a first run is given: no folder, or a file under study alone,
\* before or after the context file
SourceTrees ==
    {NoFolder}
      \cup {Folder(<<f>>) : f \in ProbeFiles}
      \cup {Folder(<<f, ContextFile>>) : f \in ProbeFiles}
      \cup {Folder(<<ContextFile, f>>) : f \in ProbeFiles}

\* the trees of repeated runs: no folder, a file that does not parse, and
\* files with records of both tickers, of the first (twice) and of the last
\* ticker
RerunTrees ==
    {NoFolder,
     Folder(<<Unparseable>>),
     Folder(<<ContextFile>>),
     Folder(<<Parsed(<<Record(<<1, Missing>>, 1, "close")>>)>>),
     Folder(<<Parsed(<<Record(<<Missing, 1>>, 2, "open"),
                       Record(<<1, Missing>>, 3, "none")>>)>>),
     Folder(<<Parsed(<<Record(<<NumTickers, Missing>>, 1, "close")>>),
              Parsed(<<Record(<<NumTickers, Missing>>, 2, "close")>>)>>)}

(***************************************************************************)
(* Input: the sector mapping file                                          *)
(***************************************************************************)
\* the column names of the mappings: ticker, Symbol, COMPANY, sector,
\* sector_name and id
ColumnNames ==
    {[text |-> <<"ticker">>, caps |-> FALSE],
     [text |-> <<"symbol">>, caps |-> TRUE],
     [text |-> <<"company">>, caps |-> TRUE],
     [text |-> <<"sector">>, caps |-> FALSE],
     [text |-> <<"sector", "_", "name">>, caps |-> FALSE],
     [text |-> <<"id">>, caps |-> FALSE]}

\* what the cells of a column hold
Holds(c) ==
    IF c.text \in {<<"ticker">>, <<"symbol">>} THEN "ticker"
    ELSE IF c.text = <<"company">> THEN "company"
    ELSE IF c.text \in {<<"sector">>, <<"sector", "_", "name">>} THEN "sector"
    ELSE "other"

\* the headers: 2..MaxColumns different column names in any order
Layouts ==
    {q \in SeqsUpTo(ColumnNames, MaxColumns) :
        Len(q) >= 2 /\ \A i, j \in 1..Len(q) : i # j => q[i] # q[j]}

\* a ticker that has no row in any Ticker_CSVs folder
Unlisted == NumTickers + 1

\* a line of a mapping: a ticker and its sector; the first ticker has a
\* line for either sector and a line without a sector
MappingLines ==
    {<<1, SectorBase + 1>>, <<1, SectorBase + 2>>, <<1, Missing>>,
     <<NumTickers, SectorBase + 1>>, <<Unlisted, SectorBase + 2>>}

\* the mappings: up to MaxMappingRows lines, tickers and lines may repeat
Mappings == SeqsUpTo(MappingLines, MaxMappingRows)

\* the mapping file with the given header and lines
SectorFile(layout, mapping) ==
    [columns |-> layout,
     rows |-> [j \in 1..Len(mapping) |-> [k \in 1..Len(layout) |->
                 CASE Holds(layout[k]) = "ticker" -> mapping[j][1]
                   [] Holds(layout[k]) = "sector" -> mapping[j][2]
                   [] Holds(layout[k]) = "company" -> CompanyBase + mapping[j][1]
                   [] OTHER -> j]]]

\* the folders the sector analysis is run on: the first ticker has 2 rows,
\* the first of them with a close of 0 or 1
SectorFolders ==
    {WithContext(1, s) :
        s \in {s \in PriceSeries(1) : Len(s) = 2 /\ s[1].close <= 1}}

\* every header with one mapping and one folder, and every mapping and
\* folder with the headers (ticker, sector) and (sector, Symbol)
SectorInputs ==
    LET plain == <<[text |-> <<"ticker">>, caps |-> FALSE],
                   [text |-> <<"sector">>, caps |-> FALSE]>>
        swapped == <<[text |-> <<"sector">>, caps |-> FALSE],
                     [text |-> <<"symbol">>, caps |-> TRUE]>>
        folder == CHOOSE f \in SectorFolders : f[1][1].close = 1 /\ f[1][2].close = 1
        mapping == <<<<1, SectorBase + 1>>, <<NumTickers, SectorBase + 2>>>>
    IN  {<<folder, SectorFile(l, mapping)>> : l \in Layouts}
          \cup {<<f, SectorFile(l, m)>> :
                  f \in SectorFolders, l \in {plain, swapped}, m \in Mappings}

(***************************************************************************)
(* Input: tables with columns absent from their header                     *)
(***************************************************************************)
\* the table without the given columns
Without(rows, cols) ==
    [i \in 1..Len(rows) |-> [c \in (DOMAIN rows[i]) \ cols |-> rows[i][c]]]

\* the required columns, as a set
RequiredSet == {required_cols[k] : k \in 1..Len(required_cols)}

\* the Master Tables the schema check is run on
SchemaMasters == {Combine(WithContext(1, s)) : s \in GappySeries(1)}

\* the Cleaned Table an earlier run of the Cleaner has left
EarlierCleaned == Prepare(Combine(WithContext(1, <<>>)))

\* the Cleaned Tables the analysis scripts are run on
CleanedTables == {Prepare(Combine(f)) : f \in SectorFolders}

\* the columns a Cleaned Table can lack
DroppedColumns == {"date", "Ticker", "close", "daily_return", "volume"}

\* the folders and mappings the analysis scripts are run on together
DeriveInputs ==
    LET plain == <<[text |-> <<"ticker">>, caps |-> FALSE],
                   [text |-> <<"sector">>, caps |-> FALSE]>>
        mapping == <<<<1, SectorBase + 1>>, <<NumTickers, SectorBase + 2>>>>
    IN  {<<f, SectorFile(plain, mapping)>> : f \in SectorFolders}

(***************************************************************************)
(* State                                                                   *)
(***************************************************************************)
VARIABLES
    data,               \* the YAML files found by the latest yaml_to_csv run
    printed,            \* the conditions printed by the latest yaml_to_csv run
    Ticker_CSVs,        \* the folder of per-ticker CSV files: name -> rows
    master_dataset,     \* master_dataset.csv
    master_cleaned,     \* master_cleaned.csv
    Sector_data,        \* Sector_data - Sheet1.csv
    market_summary,     \* market_summary.csv
    top_10_green,       \* top_10_green.csv
    top_10_loss,        \* top_10_loss.csv
    top_10_volatile,    \* top_10_volatile.csv
    cumulative_full,    \* cumulative_full.csv
    top_5_cumulative,   \* top_5_cumulative.csv
    correlation_matrix, \* correlation_matrix.csv
    sector_performance, \* sector_performance.csv
    detected,           \* the columns returned by the latest detect_columns
    monthly_top_5_gainers,  \* monthly_top_5_gainers.csv
    monthly_top_5_losers,   \* monthly_top_5_losers.csv
    monthly_charts,     \* the monthly_charts folder
    raised              \* the exception that ended the latest script run

vars == <<data, printed, Ticker_CSVs, master_dataset, master_cleaned, Sector_data,
          market_summary, top_10_green, top_10_loss, top_10_volatile,
          cumulative_full, top_5_cumulative, correlation_matrix,
          sector_performance, detected, monthly_top_5_gainers,
          monthly_top_5_losers, monthly_charts, raised>>

\* what the scripts that follow the Normalizer leave alone: the YAML tree,
\* the Normalizer's output and the sector mapping
sources == <<data, printed, Sector_data>>

\* the artifacts of sector_performance.py and monthly_performance.py
sector_monthly == <<sector_performance, detected, monthly_top_5_gainers,
                    monthly_top_5_losers, monthly_charts>>

\* the script ran to its end, or was ended by an exception whose message
\* names the given columns
NoError == [type |-> "none", columns |-> <<>>]
KeyError(columns) == [type |-> "KeyError", columns |-> columns]
ValueError == [type |-> "ValueError", columns |-> <<>>]
FileNotFoundError == [type |-> "FileNotFoundError", columns |-> <<>>]

\* every row of the table has the columns (a table without rows is taken
\* to have a complete header)
HasColumns(rows, cols) == \A i \in 1..Len(rows) : cols \subseteq DOMAIN rows[i]

\* the columns of the list that the table lacks, in list order
Lacking(rows, cols) ==
    SelectRows(cols, {k \in 1..Len(cols) : ~HasColumns(rows, {cols[k]})})

\* pandas raises KeyError on the first access of a column the table lacks
AccessError(rows, cols) == KeyError(SubSeq(Lacking(rows, cols), 1, 1))

\* no script has run yet
NothingWritten ==
    /\ master_dataset = NoFile
    /\ master_cleaned = NoFile
    /\ market_summary = NoFile
    /\ top_10_green = NoFile
    /\ top_10_loss = NoFile
    /\ top_10_volatile = NoFile
    /\ cumulative_full = NoFile
    /\ top_5_cumulative = NoFile
    /\ correlation_matrix = NoFile
    /\ sector_performance = NoFile
    /\ detected = <<>>
    /\ monthly_top_5_gainers = NoFile
    /\ monthly_top_5_losers = NoFile
    /\ monthly_charts = NoCharts
    /\ raised = NoError
    /\ printed = {}

\* no YAML folder and no sector mapping
NoSources ==
    /\ data = NoFolder
    /\ Sector_data = NoFile

Init == Ticker_CSVs \in Folders /\ NoSources /\ NothingWritten

InitWide == Ticker_CSVs \in Folders \cup WideFolders /\ NoSources /\ NothingWritten

InitEmpty == Ticker_CSVs = <<>> /\ NoSources /\ NothingWritten

InitCombine == Ticker_CSVs \in RawFolders /\ NoSources /\ NothingWritten

InitSector ==
    /\ \E in \in SectorInputs :
          Ticker_CSVs = in[1] /\ Sector_data = File(in[2])
    /\ data = NoFolder
    /\ NothingWritten

\* no analysis script has run yet
NoDerived ==
    /\ market_summary = NoFile
    /\ top_10_green = NoFile
    /\ top_10_loss = NoFile
    /\ top_10_volatile = NoFile
    /\ cumulative_full = NoFile
    /\ top_5_cumulative = NoFile
    /\ correlation_matrix = NoFile
    /\ sector_performance = NoFile
    /\ detected = <<>>
    /\ monthly_top_5_gainers = NoFile
    /\ monthly_top_5_losers = NoFile
    /\ monthly_charts = NoCharts
    /\ raised = NoError
    /\ printed = {}

\* master_dataset.csv is on disk with some of the required columns absent
\* from its header; master_cleaned.csv may be there from an earlier run
InitSchema ==
    /\ Ticker_CSVs = <<>>
    /\ NoSources
    /\ master_dataset \in
          {File(Without(m, dropped)) :
              m \in SchemaMasters, dropped \in SUBSET RequiredSet}
    /\ master_cleaned \in {NoFile, File(EarlierCleaned)}
    /\ NoDerived

\* master_cleaned.csv is on disk with some of its columns absent from its
\* header
InitDeficient ==
    /\ Ticker_CSVs = <<>>
    /\ NoSources
    /\ master_dataset = NoFile
    /\ master_cleaned \in
          {File(Without(c, dropped)) :
              c \in CleanedTables, dropped \in SUBSET DroppedColumns}
    /\ NoDerived

\* the Consolidator and the Cleaner have run, and the sector mapping is
\* there
InitDerive ==
    /\ \E in \in DeriveInputs :
          /\ Ticker_CSVs = in[1]
          /\ Sector_data = File(in[2])
          /\ master_dataset = File(Combine(in[1]))
          /\ master_cleaned = File(Prepare(Combine(in[1])))
    /\ data = NoFolder
    /\ NoDerived

(***************************************************************************)
(* Actions: one per script                                                 *)
(***************************************************************************)
\* one run of yaml_to_csv.py on the tree found under data/; a message is
\* printed with the place of the file it is about, 0 for none.  It returns
\* without writing when there is no folder or no record is accepted, and
\* else writes one file per ticker over the files of the output folder
Normalize(tree) ==
    /\ data' = tree
    /\ IF ~tree.exists
       THEN printed' = {<<"folder not found", 0>>} /\ UNCHANGED Ticker_CSVs
       ELSE LET failed == {<<"failed", k>> :
                              k \in {k \in 1..Len(tree.files) :
                                       ~tree.files[k].parsed}}
                series == TickerSeries(tree.files)
            IN  IF DOMAIN series = {}
                THEN printed' = failed \cup {<<"no data", 0>>} /\ UNCHANGED Ticker_CSVs
                ELSE /\ printed' = failed \cup {<<"done", 0>>}
                     /\ Ticker_CSVs' = Overwritten(Ticker_CSVs, series)
    /\ raised' = NoError
    /\ UNCHANGED <<master_dataset, master_cleaned, Sector_data, market_summary,
                   top_10_green, top_10_loss, top_10_volatile, cumulative_full,
                   top_5_cumulative, correlation_matrix, sector_monthly>>

\* yaml_to_csv.py, run on any tree
yaml_to_csv == \E tree \in SourceTrees : Normalize(tree)

\* yaml_to_csv.py, run again after the tree has been replaced
yaml_to_csv_rerun == \E tree \in RerunTrees : Normalize(tree)

\* combine_csvs_final.py: returns without writing when the folder is empty
combine_csvs_final ==
    /\ master_dataset' =
          IF DOMAIN Ticker_CSVs = {} THEN master_dataset
          ELSE File(Combine(Ticker_CSVs))
    /\ raised' = NoError
    /\ UNCHANGED <<Ticker_CSVs, master_cleaned, market_summary, top_10_green,
                   top_10_loss, top_10_volatile, cumulative_full,
                   top_5_cumulative, correlation_matrix, sources,
                   sector_monthly>>

\* the required columns that the table lacks, only the first of them named
FirstMissingRequired(rows) == SubSeq(Lacking(rows, required_cols), 1, 1)

\* missing = [c for c in required_cols if c not in df.columns]
MissingRequired(rows) == Lacking(rows, required_cols)

\* preparation.py: read_csv raises when master_dataset.csv does not exist
preparation ==
    /\ master_dataset.exists
    /\ LET missing == MissingRequired(master_dataset.data)
       IN  IF missing # <<>>
           THEN raised' = KeyError(missing) /\ UNCHANGED master_cleaned
           ELSE /\ master_cleaned' = File(Prepare(master_dataset.data))
                /\ raised' = NoError
    /\ UNCHANGED <<Ticker_CSVs, master_dataset, market_summary, top_10_green,
                   top_10_loss, top_10_volatile, cumulative_full,
                   top_5_cumulative, correlation_matrix, sources,
                   sector_monthly>>

market_summary_main ==
    /\ master_cleaned.exists
    /\ LET cols == <<"date", "Ticker", "close", "volume">>
       IN  IF Lacking(master_cleaned.data, cols) # <<>>
           THEN /\ raised' = AccessError(master_cleaned.data, cols)
                /\ UNCHANGED market_summary
           ELSE /\ market_summary' = File(MarketSummary(master_cleaned.data))
                /\ raised' = NoError
    /\ UNCHANGED <<Ticker_CSVs, master_dataset, master_cleaned, top_10_green,
                   top_10_loss, top_10_volatile, cumulative_full,
                   top_5_cumulative, correlation_matrix, sources,
                   sector_monthly>>

returns_analysis ==
    /\ master_cleaned.exists
    /\ LET cols == <<"date", "Ticker", "close">>
       IN  IF Lacking(master_cleaned.data, cols) # <<>>
           THEN /\ raised' = AccessError(master_cleaned.data, cols)
                /\ UNCHANGED <<top_10_green, top_10_loss>>
           ELSE /\ \E g \in TopGreen(master_cleaned.data) : top_10_green' = File(g)
                /\ \E l \in TopLoss(master_cleaned.data) : top_10_loss' = File(l)
                /\ raised' = NoError
    /\ UNCHANGED <<Ticker_CSVs, master_dataset, master_cleaned, market_summary,
                   top_10_volatile, cumulative_full, top_5_cumulative,
                   correlation_matrix, sources, sector_monthly>>

volatility_analysis ==
    /\ master_cleaned.exists
    /\ LET cols == <<"date", "daily_return", "Ticker">>
       IN  IF Lacking(master_cleaned.data, cols) # <<>>
           THEN /\ raised' = AccessError(master_cleaned.data, cols)
                /\ UNCHANGED top_10_volatile
           ELSE /\ \E v \in TopVolatile(master_cleaned.data) :
                      top_10_volatile' = File(v)
                /\ raised' = NoError
    /\ UNCHANGED <<Ticker_CSVs, master_dataset, master_cleaned, market_summary,
                   top_10_green, top_10_loss, cumulative_full,
                   top_5_cumulative, correlation_matrix, sources,
                   sector_monthly>>

\* the script with its full table saved over the file it has read
cumulative_return_in_place ==
    /\ master_cleaned.exists
    /\ LET cols == <<"date", "daily_return", "Ticker">>
       IN  IF Lacking(master_cleaned.data, cols) # <<>>
           THEN /\ raised' = AccessError(master_cleaned.data, cols)
                /\ UNCHANGED <<master_cleaned, top_5_cumulative>>
           ELSE /\ master_cleaned' = File(CumulativeFull(master_cleaned.data))
                /\ \E c \in TopCumulative(master_cleaned.data) :
                      top_5_cumulative' = File(c)
                /\ raised' = NoError
    /\ UNCHANGED <<Ticker_CSVs, master_dataset, cumulative_full, market_summary,
                   top_10_green, top_10_loss, top_10_volatile,
                   correlation_matrix, sources, sector_monthly>>

cumulative_return_analysis ==
    /\ master_cleaned.exists
    /\ LET cols == <<"date", "daily_return", "Ticker">>
       IN  IF Lacking(master_cleaned.data, cols) # <<>>
           THEN /\ raised' = AccessError(master_cleaned.data, cols)
                /\ UNCHANGED <<cumulative_full, top_5_cumulative>>
           ELSE /\ cumulative_full' = File(CumulativeFull(master_cleaned.data))
                /\ \E c \in TopCumulative(master_cleaned.data) :
                      top_5_cumulative' = File(c)
                /\ raised' = NoError
    /\ UNCHANGED <<Ticker_CSVs, master_dataset, master_cleaned, market_summary,
                   top_10_green, top_10_loss, top_10_volatile,
                   correlation_matrix, sources, sector_monthly>>

correlation_analysis ==
    /\ master_cleaned.exists
    /\ LET cols == <<"date", "daily_return", "Ticker">>
       IN  IF Lacking(master_cleaned.data, cols) # <<>>
           THEN /\ raised' = AccessError(master_cleaned.data, cols)
                /\ UNCHANGED correlation_matrix
           ELSE /\ correlation_matrix' = File(CorrMatrix(master_cleaned.data))
                /\ raised' = NoError
    /\ UNCHANGED <<Ticker_CSVs, master_dataset, master_cleaned, market_summary,
                   top_10_green, top_10_loss, top_10_volatile, cumulative_full,
                   top_5_cumulative, sources, sector_monthly>>

\* monthly_performance.py: the chart folder is made once the date column
\* has been parsed; pd.concat raises ValueError when there is no month
monthly_performance ==
    /\ master_cleaned.exists
    /\ LET rows == master_cleaned.data
           cols == <<"Ticker", "close">>
       IN  IF ~HasColumns(rows, {"date"})
           THEN /\ raised' = KeyError(<<"date">>)
                /\ UNCHANGED <<monthly_top_5_gainers, monthly_top_5_losers,
                               monthly_charts>>
           ELSE IF Lacking(rows, cols) # <<>>
           THEN /\ raised' = AccessError(rows, cols)
                /\ monthly_charts' = Charts(monthly_charts.files)
                /\ UNCHANGED <<monthly_top_5_gainers, monthly_top_5_losers>>
           ELSE IF MonthlyReturns(rows) = <<>>
           THEN /\ raised' = ValueError
                /\ monthly_charts' = Charts(monthly_charts.files)
                /\ UNCHANGED <<monthly_top_5_gainers, monthly_top_5_losers>>
           ELSE /\ monthly_top_5_gainers' = File(MonthlyGainers(rows))
                /\ monthly_top_5_losers' = File(MonthlyLosers(rows))
                /\ monthly_charts' =
                      Charts(monthly_charts.files \cup MonthlyCharts(rows))
                /\ raised' = NoError
    /\ UNCHANGED <<Ticker_CSVs, master_dataset, master_cleaned, market_summary,
                   top_10_green, top_10_loss, top_10_volatile, cumulative_full,
                   top_5_cumulative, correlation_matrix, sources,
                   sector_performance, detected>>

\* sector_performance.py: detect_columns raises ValueError when a field has
\* no column, merge raises ValueError when both fields have the same column
sector_performance_main ==
    /\ master_cleaned.exists
    /\ LET rows == master_cleaned.data
           cols == <<"date", "Ticker", "close">>
           found == detect_columns(Sector_data.data.columns)
       IN  IF Lacking(rows, cols) # <<>>
           THEN /\ raised' = AccessError(rows, cols)
                /\ UNCHANGED <<sector_performance, detected>>
           ELSE IF ~Sector_data.exists
           THEN /\ raised' = FileNotFoundError
                /\ UNCHANGED <<sector_performance, detected>>
           ELSE IF found = <<>> \/ found[1] = found[2]
           THEN /\ raised' = ValueError
                /\ detected' = found
                /\ UNCHANGED sector_performance
           ELSE /\ \E o \in SectorPerformance(rows, Sector_data.data,
                                              found[1], found[2]) :
                      sector_performance' = File(o)
                /\ detected' = found
                /\ raised' = NoError
    /\ UNCHANGED <<Ticker_CSVs, master_dataset, master_cleaned, market_summary,
                   top_10_green, top_10_loss, top_10_volatile, cumulative_full,
                   top_5_cumulative, correlation_matrix, sources,
                   monthly_top_5_gainers, monthly_top_5_losers, monthly_charts>>

\* the Normalizer, run once on an empty output folder
NextNormalize == ~data.exists /\ DOMAIN Ticker_CSVs = {} /\ yaml_to_csv

\* the Normalizer and the Consolidator, run again and again
NextRuns ==
    \/ yaml_to_csv_rerun
    \/ combine_csvs_final

\* the Consolidator alone
NextCombine == combine_csvs_final

\* the two stages every analysis script depends on
NextClean ==
    \/ combine_csvs_final
    \/ preparation

NextSummary ==
    \/ combine_csvs_final
    \/ preparation
    \/ market_summary_main

NextReturns ==
    \/ combine_csvs_final
    \/ preparation
    \/ returns_analysis

NextVolatility ==
    \/ combine_csvs_final
    \/ preparation
    \/ volatility_analysis

NextCumulative ==
    \/ combine_csvs_final
    \/ preparation
    \/ cumulative_return_analysis

NextCorrelation ==
    \/ combine_csvs_final
    \/ preparation
    \/ correlation_analysis

NextMonthly ==
    \/ combine_csvs_final
    \/ preparation
    \/ monthly_performance

NextSector ==
    \/ combine_csvs_final
    \/ preparation
    \/ sector_performance_main

\* the Cleaner alone
NextSchema == preparation

\* the analysis scripts that the Cleaned Table's columns can fail
NextDeficient ==
    \/ returns_analysis
    \/ volatility_analysis
    \/ monthly_performance

\* the analysis scripts, in any order
NextDerive ==
    \/ market_summary_main
    \/ returns_analysis
    \/ volatility_analysis
    \/ cumulative_return_analysis
    \/ correlation_analysis
    \/ monthly_performance
    \/ sector_performance_main

\* the scripts are run by hand, in any order and any number of times
Next ==
    \/ combine_csvs_final
    \/ preparation
    \/ market_summary_main
    \/ returns_analysis
    \/ volatility_analysis
    \/ cumulative_return_analysis
    \/ correlation_analysis
    \/ monthly_performance
    \/ sector_performance_main

Spec == Init /\ [][Next]_vars

SpecNormalize == InitEmpty /\ [][NextNormalize]_vars
SpecRuns == InitEmpty /\ [][NextRuns]_vars
SpecCombine == InitCombine /\ [][NextCombine]_vars

SpecSchema == InitSchema /\ [][NextSchema]_vars
SpecDeficient == InitDeficient /\ [][NextDeficient]_vars
SpecDerive == InitDerive /\ [][NextDerive]_vars

\* the pipeline up to one analysis script
SpecClean == Init /\ [][NextClean]_vars
SpecSummary == Init /\ [][NextSummary]_vars
SpecReturns == InitWide /\ [][NextReturns]_vars
SpecVolatility == Init /\ [][NextVolatility]_vars
SpecCumulative == Init /\ [][NextCumulative]_vars
SpecCorrelation == Init /\ [][NextCorrelation]_vars
SpecMonthly == InitWide /\ [][NextMonthly]_vars
SpecSector == InitSector /\ [][NextSector]_vars

(***************************************************************************)
(* Properties                                                              *)
(***************************************************************************)
\* the close of the first and of the last row of ticker t in the table
FirstClose(rows, t) ==
    rows[CHOOSE i \in 1..Len(rows) :
            /\ rows[i].Ticker = t
            /\ \A j \in 1..Len(rows) : rows[j].Ticker = t => i <= j].close
LastClose(rows, t) ==
    rows[CHOOSE i \in 1..Len(rows) :
            /\ rows[i].Ticker = t
            /\ \A j \in 1..Len(rows) : rows[j].Ticker = t => j <= i].close

\* the yearly return r of ticker t is positive / zero or negative: r is
\* defined when the first close is not 0 or the last close is not 0
GainedOverSpan(rows, t) ==
    RLess(FirstClose(rows, t), LastClose(rows, t))
NotGainedOverSpan(rows, t) ==
    /\ FirstClose(rows, t) # Zero
    /\ ~RLess(FirstClose(rows, t), LastClose(rows, t))

\* C1: in market_summary.csv green_stocks is the number of tickers with a
\* yearly return > 0, red_stocks the number of tickers with a yearly return
\* <= 0 (a return of exactly 0 counts as red), and the two add up to the
\* number of tickers with a defined yearly return.
C1_GreenRedCounts ==
    market_summary.exists =>
        LET rows == master_cleaned.data
            green == {t \in TickersOf(rows) : GainedOverSpan(rows, t)}
            red == {t \in TickersOf(rows) : NotGainedOverSpan(rows, t)}
        IN  /\ market_summary.data.green_stocks = Cardinality(green)
            /\ market_summary.data.red_stocks = Cardinality(red)

\* C2: in master_cleaned.csv the rows of every ticker are in ascending date
\* order and no two rows share the same (ticker, date) pair.  Rows whose
\* date is missing come last and are not counted as sharing a date.
C2_SortedNoDuplicateDates ==
    master_cleaned.exists =>
        LET rows == master_cleaned.data
        IN  \A i, j \in 1..Len(rows) :
                i < j /\ rows[i].Ticker = rows[j].Ticker =>
                    /\ ~KeyLess(rows[j].date, rows[i].date, NaT)
                    /\ rows[i].date # NaT => rows[i].date # rows[j].date

\* the typed rows of master_dataset.csv that have a ticker and a close, in
\* (ticker, date) order: the table the Cleaner forward-fills
BeforeFill ==
    SortStable(DropNoTickerOrClose(Coerce(master_dataset.data)), Missing, NaT)

\* the rows before row i that have row i's ticker and a value in column c
EarlierValues(rows, i, c) ==
    {j \in 1..(i - 1) : rows[j].Ticker = rows[i].Ticker /\ ~IsNaN(rows[j][c])}

\* C3: forward-fill is ticker-scoped.  A value present before the fill is
\* unchanged; a missing open/high/low/volume value stays missing when no
\* earlier row of the same ticker has a value in that column, and otherwise
\* becomes the value of the latest such row; no value comes from another
\* ticker's rows.
C3_ForwardFillWithinTicker ==
    master_cleaned.exists =>
        LET pre == BeforeFill
            post == master_cleaned.data
        IN  /\ Len(post) = Len(pre)
            /\ \A i \in 1..Len(pre) : \A c \in {"open", "high", "low", "volume"} :
                 LET earlier == EarlierValues(pre, i, c)
                 IN  post[i][c] =
                        IF ~IsNaN(pre[i][c]) THEN pre[i][c]
                        ELSE IF earlier = {} THEN NaN
                        ELSE pre[CHOOSE j \in earlier : \A k \in earlier : k <= j][c]

\* a cell was filled from an earlier row of its ticker, and a cell of the
\* first row of a ticker stayed missing although the row above it, of
\* another ticker, has a value in that column
C3_Witness ==
    /\ master_cleaned.exists
    /\ LET pre == BeforeFill
           post == master_cleaned.data
       IN  /\ \E i \in 1..Len(pre) : \E c \in {"open", "high", "low", "volume"} :
                IsNaN(pre[i][c]) /\ ~IsNaN(post[i][c])
           /\ \E i \in 2..Len(pre) : \E c \in {"open", "high", "low", "volume"} :
                /\ pre[i - 1].Ticker # pre[i].Ticker
                /\ IsNaN(pre[i][c]) /\ ~IsNaN(pre[i - 1][c])
                /\ IsNaN(post[i][c])

\* the rows above row i that have row i's ticker
RowsAbove(rows, i) == {j \in 1..(i - 1) : rows[j].Ticker = rows[i].Ticker}

\* the row immediately above row i among the rows of its ticker
RowAbove(rows, i) ==
    CHOOSE j \in RowsAbove(rows, i) : \A k \in RowsAbove(rows, i) : k <= j

\* C4 as stated: daily_return is missing exactly on the first row of every
\* ticker, and on every other row it is close / previous close - 1 for the
\* previous row of the same ticker.
C4_MissingExactlyOnFirstRows ==
    master_cleaned.exists =>
        LET rows == master_cleaned.data
        IN  \A i \in 1..Len(rows) :
                /\ IsNaN(rows[i].daily_return) <=> RowsAbove(rows, i) = {}
                /\ RowsAbove(rows, i) # {} /\ IsFinite(rows[i].daily_return) =>
                      RMul(RAdd(One, rows[i].daily_return),
                           rows[RowAbove(rows, i)].close) = rows[i].close

\* C4, amended: daily_return is missing on the first row of every ticker; on
\* every other row, with p the close of the row immediately above it among
\* the rows of the same ticker, it is close / p - 1 when p is not 0, infinite
\* when p is 0 and close is not, and missing when p and close are both 0.
C4_DailyReturn ==
    master_cleaned.exists =>
        LET rows == master_cleaned.data
        IN  \A i \in 1..Len(rows) :
                LET r == rows[i].daily_return
                    c == rows[i].close
                IN  IF RowsAbove(rows, i) = {} THEN IsNaN(r)
                    ELSE LET prev == rows[RowAbove(rows, i)].close
                         IN  IF prev # Zero
                             THEN IsFinite(r) /\ RMul(RAdd(One, r), prev) = c
                             ELSE r = <<Sgn(c[1]), 0>>

\* a ticker's first row lies below a row of another ticker, a row has a
\* finite return other than 0, and a row has a previous close of 0
C4_Witness ==
    /\ master_cleaned.exists
    /\ LET rows == master_cleaned.data
       IN  /\ \E i \in 2..Len(rows) : rows[i - 1].Ticker # rows[i].Ticker
           /\ \E i \in 1..Len(rows) :
                IsFinite(rows[i].daily_return) /\ rows[i].daily_return # Zero
           /\ \E i \in 1..Len(rows) :
                RowsAbove(rows, i) # {} /\ rows[RowAbove(rows, i)].close = Zero

\* the dates on which ticker t has a finite daily return, the returns of one
\* date taken together as their mean
ReturnDates(rows, t) ==
    {d \in PivotDates(rows) : IsFinite(PivotCell(DropNoReturn(rows), d, t))}

\* ticker t has finite returns on at least 2 dates
HasTwoReturns(rows, t) ==
    \E d, e \in ReturnDates(rows, t) : d # e

\* ticker t has two dates with different finite returns
HasTwoDifferentReturns(rows, t) ==
    \E d, e \in ReturnDates(rows, t) :
        PivotCell(DropNoReturn(rows), d, t) # PivotCell(DropNoReturn(rows), e, t)

\* the matrix is square with the same labels on both axes, and symmetric
SquareSymmetric(m) ==
    /\ m.index = m.columns
    /\ \A a, b \in m.index : m.values[a][b] = m.values[b][a]

C6_CumulativeRecurrence ==
    cumulative_full.exists =>
        LET rows == cumulative_full.data
        IN  \A i \in 1..Len(rows) :
                LET before == IF RowsAbove(rows, i) = {} THEN Zero
                              ELSE rows[RowAbove(rows, i)].cumulative_return
                IN  rows[i].cumulative_return =
                        RSub(RMul(RAdd(One, before),
                                  RAdd(One, rows[i].daily_return)), One)

\* a ticker with 2 rows in the series, and a ticker whose series starts
\* below a row of another ticker that has a cumulative return other than 0
C6_Witness ==
    /\ cumulative_full.exists
    /\ LET rows == cumulative_full.data
       IN  /\ \E i \in 1..Len(rows) :
                /\ RowsAbove(rows, i) # {}
                /\ IsFinite(rows[i].daily_return) /\ rows[i].daily_return # Zero
                /\ rows[RowAbove(rows, i)].cumulative_return # Zero
           /\ \E i \in 2..Len(rows) :
                /\ rows[i - 1].Ticker # rows[i].Ticker
                /\ IsFinite(rows[i - 1].cumulative_return)
                /\ rows[i - 1].cumulative_return # Zero

\* C7: cumulative_full.csv holds exactly one row, with a cumulative_return
\* value, for every row of master_cleaned.csv, each ticker's first day
\* included.
C7_OneRowPerCleanedRow ==
    cumulative_full.exists =>
        LET rows == cumulative_full.data
            cleaned == master_cleaned.data
        IN  /\ Len(rows) = Len(cleaned)
            /\ \A i \in 1..Len(rows) :
                 /\ rows[i].Ticker = cleaned[i].Ticker
                 /\ rows[i].date = cleaned[i].date
                 /\ ~IsNaN(rows[i].cumulative_return)

\* the rows written by returns_analysis.py
WrittenReturns ==
    {top_10_green.data[i] : i \in 1..Len(top_10_green.data)}
        \cup {top_10_loss.data[i] : i \in 1..Len(top_10_loss.data)}

\* C8 as stated: the yearly return of a ticker is (last_close - first_close)
\* / first_close for the first and last rows of the ticker in the Cleaned
\* Table, and it is 0 for a ticker with a single row or with equal first
\* and last close.
C8_ZeroReturnOnEqualCloses ==
    top_10_green.exists =>
        \A r \in WrittenReturns :
            LET first_close == FirstClose(master_cleaned.data, r.Ticker)
                last_close == LastClose(master_cleaned.data, r.Ticker)
            IN  /\ first_close = last_close => r.yearly_return = Zero
                /\ first_close # Zero =>
                     RMul(r.yearly_return, first_close) = RSub(last_close, first_close)

\* C8, amended: the yearly return of a ticker is (last_close - first_close)
\* / first_close whenever first_close is not 0, hence 0 for a ticker with a
\* single row or with equal first and last close other than 0; when
\* first_close is 0 it is missing if last_close is 0 too, infinite if not.
C8_YearlyReturn ==
    top_10_green.exists =>
        \A r \in WrittenReturns :
            LET first_close == FirstClose(master_cleaned.data, r.Ticker)
                last_close == LastClose(master_cleaned.data, r.Ticker)
            IN  IF first_close # Zero
                THEN /\ IsFinite(r.yearly_return)
                     /\ RMul(r.yearly_return, first_close) = RSub(last_close, first_close)
                     /\ first_close = last_close => r.yearly_return = Zero
                ELSE r.yearly_return = <<Sgn(last_close[1]), 0>>

\* a ticker with a gain or a loss, and a ticker with several rows whose
\* equal first and last closes give a return of 0
C8_Witness ==
    /\ top_10_green.exists
    /\ \E r \in WrittenReturns :
          IsFinite(r.yearly_return) /\ r.yearly_return # Zero
    /\ \E r \in WrittenReturns :
          /\ r.yearly_return = Zero
          /\ Len(Group(master_cleaned.data, r.Ticker)) > 1

\* C9: the yearly returns written by returns_analysis.py hold a row for
\* every ticker of the Cleaned Table, for any number of tickers.  (Read in
\* the claim's favour: a row in either of the two files counts.)
C9_EveryTickerWritten ==
    top_10_green.exists =>
        \A t \in TickersOf(master_cleaned.data) :
            \E r \in WrittenReturns : r.Ticker = t

\* C10: every ticker of the Cleaned Table with fewer than 2 valid daily
\* returns has a row in top_10_volatile.csv, with a missing volatility.
C10_UndefinedVolatilityReported ==
    top_10_volatile.exists =>
        LET cleaned == master_cleaned.data
        IN  \A t \in TickersOf(cleaned) :
                Len(Valid(Group(cleaned, t), "daily_return")) < 2 =>
                    \E i \in 1..Len(top_10_volatile.data) :
                        /\ top_10_volatile.data[i].Ticker = t
                        /\ IsNaN(top_10_volatile.data[i].volatility_sq)

\* the rows of ticker t in month m of the Cleaned Table, by index
MonthRowsOf(rows, t, m) ==
    {i \in 1..Len(rows) :
        rows[i].Ticker = t /\ rows[i].date # NaT /\ Month(rows[i].date) = m}

\* (last_close - first_close) / first_close over the rows of ticker t in
\* month m; missing when both closes are 0
MonthlyReturnOf(rows, t, m) ==
    LET idx == MonthRowsOf(rows, t, m)
        first == rows[CHOOSE i \in idx : \A j \in idx : i <= j].close
        last == rows[CHOOSE i \in idx : \A j \in idx : j <= i].close
    IN  RDiv(RSub(last, first), first)

\* the tickers with a defined monthly return in month m
RankedTickers(rows, m) ==
    {t \in TickersOf(rows) :
        MonthRowsOf(rows, t, m) # {} /\ ~IsNaN(MonthlyReturnOf(rows, t, m))}

\* the list holds, for month m, the min(5, N) best tickers of the month by
\* the order asc, ranked 1..min(5, N)
LeaderboardOfMonth(list, rows, m, asc) ==
    LET sel == SelectRows(list, {i \in 1..Len(list) : list[i].month = m})
        N == Cardinality(RankedTickers(rows, m))
        chosen == {sel[k].Ticker : k \in 1..Len(sel)}
    IN  /\ Len(sel) = IF N < 5 THEN N ELSE 5
        /\ Cardinality(chosen) = Len(sel)
        /\ chosen \subseteq RankedTickers(rows, m)
        /\ \A k \in 1..Len(sel) :
             /\ sel[k].rank = k
             /\ sel[k].monthly_return = MonthlyReturnOf(rows, sel[k].Ticker, m)
             /\ \A l \in (k + 1)..Len(sel) :
                  ~ValBefore(sel[l].monthly_return, sel[k].monthly_return, asc)
             /\ \A t \in RankedTickers(rows, m) \ chosen :
                  ~ValBefore(MonthlyReturnOf(rows, t, m), sel[k].monthly_return, asc)

\* the months of the rows of the table that have a date
MonthsOf(rows) ==
    {Month(rows[i].date) : i \in {i \in 1..Len(rows) : rows[i].date # NaT}}

\* C11: for every month, monthly_top_5_gainers.csv and
\* monthly_top_5_losers.csv each hold min(5, N) rows, N the number of
\* tickers with a defined monthly return in that month; the ranks of a
\* month are 1..min(5, N); gainers are in non-increasing and losers in
\* non-decreasing order of monthly_return; no ticker left out of a list has
\* a higher (gainers) or lower (losers) return than a listed one; no row
\* belongs to any other month.
C11_MonthlyLeaderboards ==
    monthly_top_5_gainers.exists /\ raised = NoError =>
        LET rows == master_cleaned.data
            gainers == monthly_top_5_gainers.data
            losers == monthly_top_5_losers.data
        IN  /\ monthly_top_5_losers.exists
            /\ \A m \in MonthsOf(rows) :
                 /\ LeaderboardOfMonth(gainers, rows, m, FALSE)
                 /\ LeaderboardOfMonth(losers, rows, m, TRUE)
            /\ \A i \in 1..Len(gainers) : gainers[i].month \in MonthsOf(rows)
            /\ \A i \in 1..Len(losers) : losers[i].month \in MonthsOf(rows)

\* a month with more than 5 ranked tickers: both lists hold 5 rows, the
\* gainers and the losers differ, and the returns within a list differ
C11_Witness ==
    /\ monthly_top_5_gainers.exists
    /\ \E m \in MonthsOf(master_cleaned.data) :
         LET g == SelectRows(monthly_top_5_gainers.data,
                     {i \in 1..Len(monthly_top_5_gainers.data) :
                         monthly_top_5_gainers.data[i].month = m})
             l == SelectRows(monthly_top_5_losers.data,
                     {i \in 1..Len(monthly_top_5_losers.data) :
                         monthly_top_5_losers.data[i].month = m})
         IN  /\ Len(g) = 5 /\ Len(l) = 5
             /\ Cardinality(RankedTickers(master_cleaned.data, m)) > 5
             /\ g[1].Ticker # l[1].Ticker
             /\ l[1].monthly_return # l[5].monthly_return

\* the cell of a line of the mapping in its first column that holds the
\* given kind of value
CellOf(sectors, j, kind) ==
    sectors.rows[j][CHOOSE k \in 1..Len(sectors.columns) :
                       /\ Holds(sectors.columns[k]) = kind
                       /\ \A l \in 1..(k - 1) : Holds(sectors.columns[l]) # kind]

\* the tickers of the Cleaned Table that the mapping maps to sector s
MappedTo(rows, sectors, s) ==
    {t \in TickersOf(rows) :
        \E j \in 1..Len(sectors.rows) :
            CellOf(sectors, j, "ticker") = t /\ CellOf(sectors, j, "sector") = s}

\* (last_close - first_close) / first_close of ticker t
YearlyReturnOf(rows, t) ==
    RDiv(RSub(LastClose(rows, t), FirstClose(rows, t)), FirstClose(rows, t))

\* the mean of the yearly returns of the tickers, each ticker counted once
\* and the tickers without a yearly return left out
MeanYearlyReturn(rows, tickers) ==
    LET defined == {t \in tickers : ~IsNaN(YearlyReturnOf(rows, t))}
    IN  IF defined = {} THEN NaN
        ELSE RDiv(SumOver([t \in defined |-> YearlyReturnOf(rows, t)], defined),
                  Num(Cardinality(defined)))

\* C12: every row of sector_performance.csv is a sector to which the
\* mapping maps at least one ticker of the Cleaned Table, and its
\* average_yearly_return is the mean of the yearly returns of the tickers
\* mapped to that sector (so a ticker without a row in the mapping
\* contributes to no average); the rows are in descending order of
\* average_yearly_return.
C12_SectorAverages ==
    sector_performance.exists =>
        LET out == sector_performance.data
            rows == master_cleaned.data
            sectors == Sector_data.data
        IN  /\ \A i \in 1..Len(out) :
                 /\ MappedTo(rows, sectors, out[i].sector) # {}
                 /\ out[i].average_yearly_return =
                       MeanYearlyReturn(rows, MappedTo(rows, sectors, out[i].sector))
            /\ \A i, j \in 1..Len(out) :
                 i < j => ~ValBefore(out[j].average_yearly_return,
                                     out[i].average_yearly_return, FALSE)

\* the column chosen by candidate priority: of the columns whose lower-case
\* name contains the earliest candidate contained in any column, the first
ByCandidate(columns, candidates) ==
    LET hit(c) == {k \in 1..Len(columns) : Contains(columns[k].text, candidates[c])}
        first == CHOOSE c \in 1..Len(candidates) :
                    hit(c) # {} /\ \A b \in 1..(c - 1) : hit(b) = {}
    IN  columns[CHOOSE k \in hit(first) : \A l \in hit(first) : k <= l]

\* C20: detect_columns chooses, for the ticker and for the sector field,
\* the column that matches the earliest name of the field's candidate list
\* (case-insensitively, whatever the position of the column), and never
\* returns the same column for both fields.
C20_CandidatePriority ==
    detected # <<>> =>
        /\ detected[1] = ByCandidate(Sector_data.data.columns, ticker_candidates)
        /\ detected[2] = ByCandidate(Sector_data.data.columns, sector_candidates)
        /\ detected[1] # detected[2]

\* the rows of the files of the folder, in file-name order
InputRows == ConcatFiles(Ticker_CSVs, DOMAIN Ticker_CSVs)

\* an input row as master_dataset.csv shows it: a date that does not parse
\* is written as the empty cell
Rendered(r) == [r EXCEPT !.date = WriteDate(ToDatetime(@))]

\* the place of the first input row that a row of the master table shows
FirstInput(r) ==
    CHOOSE k \in 1..Len(InputRows) :
        /\ Rendered(InputRows[k]) = r
        /\ \A j \in 1..(k - 1) : Rendered(InputRows[j]) # r

\* C13: master_dataset.csv holds every distinct input row exactly once (no
\* two of its rows agree in all fields); its rows are grouped by ticker in
\* ascending ticker order; within a ticker the dates are non-decreasing
\* (rows without a date last); rows of equal (ticker, date) are in their
\* input order.
C13_MasterTable ==
    master_dataset.exists =>
        LET out == master_dataset.data
            distinct == {InputRows[k] : k \in 1..Len(InputRows)}
        IN  /\ Len(out) = Cardinality(distinct)
            /\ \A r \in distinct : \E i \in 1..Len(out) : out[i] = Rendered(r)
            /\ \A i, j \in 1..Len(out) :
                 i < j =>
                    /\ out[i] # out[j]
                    /\ ~KeyLess(out[j].Ticker, out[i].Ticker, Missing)
                    /\ out[i].Ticker = out[j].Ticker =>
                          ~KeyLess(out[j].date, out[i].date, Missing)
                    /\ out[i].Ticker = out[j].Ticker /\ out[i].date = out[j].date =>
                          FirstInput(out[i]) < FirstInput(out[j])

\* the places <<file, record>> of the records yielded from the tree
YieldedAt(tree) ==
    UNION {{<<k, i>> : i \in 1..Len(tree.files[k].records)} :
             k \in {k \in 1..Len(tree.files) : tree.files[k].parsed}}

\* the record at a place of the tree
RecordAt(tree, q) == tree.files[q[1]].records[q[2]]

\* the ticker identifier of a record, Missing when it has none
IdentifierOf(raw) == IF raw.Ticker # Missing THEN raw.Ticker ELSE raw.ticker

\* the record has a ticker identifier and at least one price
HasTickerAndPrice(raw) ==
    /\ IdentifierOf(raw) # Missing
    /\ \E c \in {"open", "high", "low", "close"} : raw[c] # Missing

\* the row a record makes in a per-ticker file
RowOfRecord(raw) ==
    [date |-> WriteDate(ToDatetime(raw.date)), open |-> raw.open,
     high |-> raw.high, low |-> raw.low, close |-> raw.close,
     volume |-> raw.volume, Ticker |-> IdentifierOf(raw)]

\* the tickers accepted from the tree
AcceptedTickers(tree) ==
    {IdentifierOf(RecordAt(tree, q)) :
        q \in {q \in YieldedAt(tree) : HasTickerAndPrice(RecordAt(tree, q))}}

\* C14: after a run of the Normalizer on an empty output folder there is
\* one series per ticker that has a record with a ticker identifier and at
\* least one of open/high/low/close, and none for any other ticker; the
\* series of a ticker holds one row for each such record of that ticker,
\* whatever file it comes from, and no other row: no record without a ticker
\* or without a price and no record of another ticker.
C14_Accumulation ==
    data.exists =>
        /\ DOMAIN Ticker_CSVs = AcceptedTickers(data)
        /\ \A t \in DOMAIN Ticker_CSVs :
             LET from == {q \in YieldedAt(data) :
                            /\ HasTickerAndPrice(RecordAt(data, q))
                            /\ IdentifierOf(RecordAt(data, q)) = t}
                 series == Ticker_CSVs[t]
             IN  /\ Len(series) = Cardinality(from)
                 /\ \A i \in 1..Len(series) :
                      /\ series[i].Ticker = t
                      /\ Cardinality({j \in 1..Len(series) : series[j] = series[i]})
                           = Cardinality({q \in from :
                                            RowOfRecord(RecordAt(data, q)) = series[i]})

\* a series holds rows of records from two files, a record without a
\* ticker and a record with a ticker and no price were yielded, and a record
\* was accepted on its open alone
C14_Witness ==
    /\ data.exists
    /\ \E t \in DOMAIN Ticker_CSVs : \E p, q \in YieldedAt(data) :
          /\ p[1] # q[1]
          /\ HasTickerAndPrice(RecordAt(data, p)) /\ IdentifierOf(RecordAt(data, p)) = t
          /\ HasTickerAndPrice(RecordAt(data, q)) /\ IdentifierOf(RecordAt(data, q)) = t
    /\ \E q \in YieldedAt(data) : IdentifierOf(RecordAt(data, q)) = Missing
    /\ \E q \in YieldedAt(data) :
          /\ IdentifierOf(RecordAt(data, q)) # Missing
          /\ ~HasTickerAndPrice(RecordAt(data, q))
    /\ \E t \in DOMAIN Ticker_CSVs : \E i \in 1..Len(Ticker_CSVs[t]) :
          Ticker_CSVs[t][i].close = Missing

\* the files of the tree that parse, in walk order
ParseableFiles(tree) ==
    SelectRows(tree.files, {k \in 1..Len(tree.files) : tree.files[k].parsed})

\* C15: after a run of the Normalizer on an empty output folder, every file
\* that does not parse has been reported and the per-ticker series are
\* exactly those that the parseable files alone produce; when the source
\* folder is absent or no record is accepted the run ends without an
\* exception, reports the condition and writes no series.
C15_FailureIsolation ==
    /\ raised = NoError
    /\ data.exists =>
         /\ Ticker_CSVs = TickerSeries(ParseableFiles(data))
         /\ \A k \in 1..Len(data.files) :
              ~data.files[k].parsed => <<"failed", k>> \in printed
         /\ AcceptedTickers(data) = {} =>
              DOMAIN Ticker_CSVs = {} /\ <<"no data", 0>> \in printed
    /\ ~data.exists /\ printed # {} =>
         DOMAIN Ticker_CSVs = {} /\ <<"folder not found", 0>> \in printed

\* a file that does not parse lies before a file whose records have been
\* written to a series
C15_Witness ==
    /\ data.exists
    /\ \E k, l \in 1..Len(data.files) :
          /\ k < l
          /\ ~data.files[k].parsed
          /\ data.files[l].parsed
          /\ \E i \in 1..Len(data.files[l].records) :
                HasTickerAndPrice(data.files[l].records[i])
    /\ DOMAIN Ticker_CSVs # {}
    /\ <<"failed", 1>> \in printed

\* C19: after any sequence of runs the per-ticker files are exactly the
\* files of the tickers accepted from the tree of the latest Normalizer
\* run, and so are the tickers of a master table regenerated from them: a
\* ticker of an earlier tree that the latest tree lacks has no file and no
\* row.
C19_WholesaleRegeneration ==
    LET latest == IF data.exists THEN AcceptedTickers(data) ELSE {}
    IN  /\ DOMAIN Ticker_CSVs = latest
        /\ master_dataset.exists /\ master_dataset.data = Combine(Ticker_CSVs) =>
              TickersOf(master_dataset.data) = latest

\* the required columns absent from the header of the table
AbsentRequired(table) ==
    {c \in RequiredSet : \E i \in 1..Len(table) : c \notin DOMAIN table[i]}

\* C16: when a required column is absent from the Master Table, a run of
\* the Cleaner ends with a KeyError that names every absent required column
\* once, and leaves master_dataset.csv and master_cleaned.csv as they were:
\* nothing is coerced or filled, no column is invented, nothing is written
C16_SchemaCheck ==
    [][(master_dataset.exists /\ AbsentRequired(master_dataset.data) # {}) =>
          /\ raised'.type = "KeyError"
          /\ {raised'.columns[k] : k \in 1..Len(raised'.columns)} =
                AbsentRequired(master_dataset.data)
          /\ Len(raised'.columns) = Cardinality(AbsentRequired(master_dataset.data))
          /\ master_cleaned' = master_cleaned
          /\ master_dataset' = master_dataset]_vars

\* the Cleaner has failed on a Master Table that lacks several required
\* columns, with a Cleaned Table of an earlier run on disk
C16_Witness ==
    /\ master_dataset.exists
    /\ Cardinality(AbsentRequired(master_dataset.data)) >= 2
    /\ raised.type = "KeyError"
    /\ Len(raised.columns) >= 2
    /\ master_cleaned = File(EarlierCleaned)

\* the columns absent from the header of the table
AbsentColumns(table) ==
    {c \in DroppedColumns : \E i \in 1..Len(table) : c \notin DOMAIN table[i]}

\* C18: a run of an analysis script that ends with a KeyError, the Cleaned
\* Table lacking a column the script requires, names columns that the
\* table lacks and leaves every artifact and the chart folder as they
\* were: it writes no output of its own, and none of a sibling's
C18_FailureSemantics ==
    [][raised'.type = "KeyError" =>
          /\ raised'.columns # <<>>
          /\ \A k \in 1..Len(raised'.columns) :
                raised'.columns[k] \in AbsentColumns(master_cleaned.data)
          /\ UNCHANGED <<top_10_green, top_10_loss, top_10_volatile,
                         monthly_top_5_gainers, monthly_top_5_losers,
                         monthly_charts>>]_vars

\* the analysis scripts whose artifacts the step changes, numbered as in
\* NextDerive
Writers ==
    {g \in 1..7 :
        CASE g = 1 -> market_summary' # market_summary
          [] g = 2 -> <<top_10_green, top_10_loss>>' # <<top_10_green, top_10_loss>>
          [] g = 3 -> top_10_volatile' # top_10_volatile
          [] g = 4 -> <<cumulative_full, top_5_cumulative>>' #
                         <<cumulative_full, top_5_cumulative>>
          [] g = 5 -> correlation_matrix' # correlation_matrix
          [] g = 6 -> <<monthly_top_5_gainers, monthly_top_5_losers,
                        monthly_charts>>' #
                         <<monthly_top_5_gainers, monthly_top_5_losers,
                           monthly_charts>>
          [] OTHER -> <<sector_performance, detected>>' #
                         <<sector_performance, detected>>}

\* C17: a run of an analysis script leaves the per-ticker files, the
\* Master Table, the Cleaned Table and the sector mapping as they were,
\* changes the artifacts of one analysis alone, and what it writes is
\* derived from the Cleaned Table (and, for the sectors, the mapping) and
\* from nothing else: whatever ran before, an artifact has the same contents
C17_Independence ==
    [][/\ UNCHANGED <<data, Ticker_CSVs, master_dataset, master_cleaned,
                      Sector_data>>
       /\ Cardinality(Writers) <= 1
       /\ LET cleaned == master_cleaned.data
              found == detect_columns(Sector_data.data.columns)
          IN  /\ 1 \in Writers =>
                    market_summary' = File(MarketSummary(cleaned))
              /\ 2 \in Writers =>
                    /\ \E g \in TopGreen(cleaned) : top_10_green' = File(g)
                    /\ \E l \in TopLoss(cleaned) : top_10_loss' = File(l)
              /\ 3 \in Writers =>
                    \E v \in TopVolatile(cleaned) : top_10_volatile' = File(v)
              /\ 4 \in Writers =>
                    /\ cumulative_full' = File(CumulativeFull(cleaned))
                    /\ \E c \in TopCumulative(cleaned) :
                          top_5_cumulative' = File(c)
              /\ 5 \in Writers =>
                    correlation_matrix' = File(CorrMatrix(cleaned))
              /\ 6 \in Writers =>
                    /\ monthly_top_5_gainers' = File(MonthlyGainers(cleaned))
                    /\ monthly_top_5_losers' = File(MonthlyLosers(cleaned))
                    /\ monthly_charts' = Charts(MonthlyCharts(cleaned))
              /\ 7 \in Writers =>
                    /\ detected' = found
                    /\ \E o \in SectorPerformance(cleaned, Sector_data.data,
                                                  found[1], found[2]) :
                          sector_performance' = File(o)]_vars

\* every analysis script has run and written its artifacts
C17_Witness ==
    /\ market_summary.exists
    /\ top_10_green.exists /\ top_10_loss.exists
    /\ top_10_volatile.exists
    /\ cumulative_full.exists /\ top_5_cumulative.exists
    /\ correlation_matrix.exists
    /\ monthly_top_5_gainers.exists /\ monthly_top_5_losers.exists
    /\ monthly_charts.exists
    /\ sector_performance.exists

\* the sectors that the lines of the mapping give for ticker t
SectorsOf(sectors, t) ==
    {CellOf(sectors, j, "sector") :
        j \in {j \in 1..Len(sectors.rows) :
                 /\ CellOf(sectors, j, "ticker") = t
                 /\ CellOf(sectors, j, "sector") # Missing}}

\* the tickers of the Cleaned Table that have a sector in the mapping
MappedTickers(rows, sectors) ==
    {t \in TickersOf(rows) : SectorsOf(sectors, t) # {}}

\* the ways to give every mapped ticker one of its sectors
OneSectorEach(rows, sectors) ==
    {f \in [MappedTickers(rows, sectors) ->
               UNION {SectorsOf(sectors, t) : t \in MappedTickers(rows, sectors)}] :
        \A t \in MappedTickers(rows, sectors) : f[t] \in SectorsOf(sectors, t)}

\* C21: in sector_performance.csv every mapped ticker contributes its
\* yearly return once, to the average of one sector: there is a way to give
\* every mapped ticker one of its sectors such that the rows of the file are
\* the sectors given, each with the mean of the yearly returns of its
\* tickers, whatever lines the mapping repeats
C21_OneContributionPerTicker ==
    sector_performance.exists =>
        LET out == sector_performance.data
            rows == master_cleaned.data
            sectors == Sector_data.data
        IN  \E f \in OneSectorEach(rows, sectors) :
                /\ \A t \in DOMAIN f : \E i \in 1..Len(out) : out[i].sector = f[t]
                /\ \A i \in 1..Len(out) :
                      LET members == {t \in DOMAIN f : f[t] = out[i].sector}
                      IN  /\ members # {}
                          /\ out[i].average_yearly_return =
                                MeanYearlyReturn(rows, members)

\* ticker t has at least 2 rows in the table, all with a close above 0
SeveralPositiveCloses(rows, t) ==
    /\ Len(Group(rows, t)) >= 2
    /\ \A i \in 1..Len(rows) :
          rows[i].Ticker = t => IsFinite(rows[i].close) /\ RPos(rows[i].close)

\* the yearly returns of ticker t in the table of yearly returns
ReturnsOf(table, t) ==
    {table[i].yearly_return : i \in {i \in 1..Len(table) : table[i].Ticker = t}}

\* C22: for every ticker with at least 2 rows in the Cleaned Table and all
\* closes above 0, the yearly return that the dashboard derives from the
\* last cumulative_return of the ticker in cumulative_full.csv is
\* last_close / first_close - 1, the yearly return computed from the
\* Cleaned Table; a ticker with a single row has a computed yearly return
\* and no row in cumulative_full.csv, hence none in the derived table
C22_LastCumulativeIsYearlyReturn ==
    cumulative_full.exists =>
        LET cleaned == master_cleaned.data
            derived == get_yearly_returns(cumulative_full)
            direct == YearlyReturns(cleaned)
        IN  \A t \in TickersOf(cleaned) :
                /\ SeveralPositiveCloses(cleaned, t) =>
                      /\ ReturnsOf(derived, t) =
                            {RSub(RDiv(LastClose(cleaned, t), FirstClose(cleaned, t)),
                                  One)}
                      /\ ReturnsOf(direct, t) = ReturnsOf(derived, t)
                /\ Len(Group(cleaned, t)) = 1 =>
                      /\ Cardinality(ReturnsOf(direct, t)) = 1
                      /\ \A i \in 1..Len(cumulative_full.data) :
                            cumulative_full.data[i].Ticker # t
                      /\ ReturnsOf(derived, t) = {}

\* the series has been written for a Cleaned Table with a ticker of a
\* single row and a ticker of several rows, all closes above 0, whose last
\* cumulative return is not 0
C22_Witness ==
    /\ cumulative_full.exists
    /\ LET cleaned == master_cleaned.data
           derived == get_yearly_returns(cumulative_full)
       IN  /\ \E t \in TickersOf(cleaned) : Len(Group(cleaned, t)) = 1
           /\ \E t \in TickersOf(cleaned) :
                 /\ SeveralPositiveCloses(cleaned, t)
                 /\ Zero \notin ReturnsOf(derived, t)

==========================================================================
